---- MODULE Spec2Model ----
(***************************************************************************)
(* video-folder-cleanup (src/main.go): the concurrent scan of a            *)
(* library/studio/title tree into a shared CleanupResult.                  *)
(*                                                                         *)
(* A file name is a sequence of one-character strings, a path is a         *)
(* sequence of names (filepath.Join appends a name, filepath.Base is the   *)
(* last name), and the filesystem is a function from the existing paths    *)
(* to their kind.  Goroutine 0 is the caller (main); goroutines            *)
(* 1..numWorkers are the workers started by scanLibrary.                   *)
(***************************************************************************)
EXTENDS Integers, Sequences, FiniteSets, TLC

(***************************************************************************)
(* Bounds of the model.                                                    *)
(***************************************************************************)
MaxWorkers == 2
MaxStudios == 2
MaxDirEntries == 3
MaxRoots == 3
MaxRuns == 2

(***************************************************************************)
(* Strings: package strings and filepath.Ext on ASCII names.               *)
(***************************************************************************)
\* The printable ASCII characters 32..95 and 97..126, in byte order.
AsciiLow ==
  << " ", "!", "\"", "#", "$", "%", "&", "'", "(", ")", "*", "+", ",", "-", ".", "/",
     "0", "1", "2", "3", "4", "5", "6", "7", "8", "9", ":", ";", "<", "=", ">", "?",
     "@", "A", "B", "C", "D", "E", "F", "G", "H", "I", "J", "K", "L", "M", "N", "O",
     "P", "Q", "R", "S", "T", "U", "V", "W", "X", "Y", "Z", "[", "\\", "]", "^", "_" >>

AsciiHigh ==
  << "a", "b", "c", "d", "e", "f", "g", "h", "i", "j", "k", "l", "m", "n", "o", "p",
     "q", "r", "s", "t", "u", "v", "w", "x", "y", "z", "{", "|", "}", "~" >>

\* The byte of a character: AsciiLow starts at 32, AsciiHigh at 97.
Byte ==
  [c \in {AsciiLow[i] : i \in DOMAIN AsciiLow} \cup {AsciiHigh[i] : i \in DOMAIN AsciiHigh} |->
     IF \E i \in DOMAIN AsciiLow : AsciiLow[i] = c
       THEN 31 + (CHOOSE i \in DOMAIN AsciiLow : AsciiLow[i] = c)
       ELSE 96 + (CHOOSE i \in DOMAIN AsciiHigh : AsciiHigh[i] = c)]

\* strings.ToLower on one ASCII byte: 'A'..'Z' (65..90) move up by 'a' - 'A'.
ToLowerByte ==
  [c \in DOMAIN Byte |->
     IF Byte[c] >= 65 /\ Byte[c] <= 90
       THEN AsciiHigh[Byte[c] + 32 - 96]
       ELSE c]

\* Op applied to the value of v: v is evaluated once, as an assignment to a
\* local variable evaluates its right-hand side once.
With(v, Op(_)) == CHOOSE r \in {Op(x) : x \in {v}} : TRUE

ToLower(s) == With(s, LAMBDA v : [i \in DOMAIN v |-> ToLowerByte[v[i]]])

HasPrefix(s, prefix) ==
  /\ Len(s) >= Len(prefix)
  /\ SubSeq(s, 1, Len(prefix)) = prefix

HasSuffix(s, suffix) ==
  /\ Len(s) >= Len(suffix)
  /\ SubSeq(s, Len(s) - Len(suffix) + 1, Len(s)) = suffix

TrimSuffix(s, suffix) ==
  IF HasSuffix(s, suffix) THEN SubSeq(s, 1, Len(s) - Len(suffix)) ELSE s

\* filepath.Ext: the suffix beginning at the final dot of the name, else empty.
Ext(name) ==
  With({i \in DOMAIN name : name[i] = "."},
       LAMBDA dots : IF dots = {} THEN << >>
                     ELSE SubSeq(name, CHOOSE i \in dots : \A j \in dots : j <= i, Len(name)))

\* Byte-wise string order (the order of os.ReadDir's entries).
StrLess(a, b) ==
  \/ /\ Len(a) < Len(b)
     /\ SubSeq(b, 1, Len(a)) = a
  \/ \E i \in 1..Len(a) :
       /\ i <= Len(b)
       /\ SubSeq(a, 1, i - 1) = SubSeq(b, 1, i - 1)
       /\ Byte[a[i]] < Byte[b[i]]

\* The names of S in byte-wise order: the i-th has i-1 names before it.
SortNames(S) ==
  With(S, LAMBDA names :
    [i \in 1..Cardinality(names) |->
       CHOOSE a \in names : Cardinality({b \in names : StrLess(b, a)}) = i - 1])

(***************************************************************************)
(* Program constants (main.go:12-22).                                      *)
(***************************************************************************)
videoExtensions ==
  { << ".", "m", "k", "v" >>,
    << ".", "m", "p", "4" >>,
    << ".", "a", "v", "i" >>,
    << ".", "m", "4", "v" >> }

metadataSubdirSuffixes ==
  << << ".", "t", "r", "i", "c", "k", "p", "l", "a", "y" >> >>

\* isMetadataSubdir comparing the name as it is spelled.
isMetadataSubdir_CaseSensitive(name) ==
  \E i \in DOMAIN metadataSubdirSuffixes : HasSuffix(name, metadataSubdirSuffixes[i])

isMetadataSubdir(name) ==
  \E i \in DOMAIN metadataSubdirSuffixes :
    HasSuffix(ToLower(name), metadataSubdirSuffixes[i])

(***************************************************************************)
(* The filesystem: f[p] is "file", "dir" or "noperm" (a directory whose    *)
(* entries cannot be read) for every existing path p.                      *)
(***************************************************************************)
Join(dirPath, name) == Append(dirPath, name)

Base(path) == path[Len(path)]

Children(f, dirPath) ==
  {p \in DOMAIN f : Len(p) = Len(dirPath) + 1 /\ SubSeq(p, 1, Len(dirPath)) = dirPath}

\* os.ReadDir's error: "" when the directory is read.
ReadDirErr(f, dirPath) ==
  IF dirPath \notin DOMAIN f THEN "no such file or directory"
  ELSE IF f[dirPath] = "file" THEN "not a directory"
  ELSE IF f[dirPath] = "noperm" THEN "permission denied"
  ELSE ""

\* os.ReadDir's entries, sorted by filename.
ReadDir(f, dirPath) ==
  With(SortNames({Base(p) : p \in Children(f, dirPath)}),
       LAMBDA names : [i \in DOMAIN names |->
                         [name |-> names[i], isDir |-> f[Join(dirPath, names[i])] # "file"]])

\* isDirEmpty answering true for a directory it cannot read.
isDirEmpty_ErrorIsEmpty(f, dirPath) ==
  IF ReadDirErr(f, dirPath) # "" THEN TRUE ELSE Len(ReadDir(f, dirPath)) = 0

\* isDirEmpty counting only the files of the directory.
isDirEmpty_FilesOnly(f, dirPath) ==
  IF ReadDirErr(f, dirPath) # "" THEN FALSE
  ELSE Len(SelectSeq(ReadDir(f, dirPath), LAMBDA e : ~e.isDir)) = 0

\* main.go:352-358; scanLibrary drops the error (main.go:203).
isDirEmpty(f, dirPath) ==
  IF ReadDirErr(f, dirPath) # "" THEN FALSE ELSE Len(ReadDir(f, dirPath)) = 0

(***************************************************************************)
(* Classification.  An emission is one append to a sequence of the         *)
(* CleanupResult: [cat, val], val a path or, for StructureWarnings, the    *)
(* fmt.Sprintf message kept as its format with its arguments.              *)
(***************************************************************************)
Categories == {"OrphanedFolders", "OrphanedFiles", "EmptyFolders", "StructureWarnings"}

Sprintf(format, level, path, err) ==
  [format |-> format, level |-> level, path |-> path, err |-> err]

Warn(format, level, path, err) ==
  [cat |-> "StructureWarnings", val |-> Sprintf(format, level, path, err)]

Emit(cat, path) == [cat |-> cat, val |-> path]

\* isVideoName comparing the extension as it is spelled.
isVideoName_CaseSensitive(name) == Ext(name) \in videoExtensions

\* main.go:266-267, 303-304, 315-317: the lowercased extension is a video extension.
isVideoName(name) == ToLower(Ext(name)) \in videoExtensions

\* main.go:306-307: the lowercased basenames of the video files among the entries.
videoBasenamesOf(entries) ==
  {ToLower(TrimSuffix(entries[i].name, Ext(entries[i].name))) :
     i \in {j \in DOMAIN entries : ~entries[j].isDir /\ isVideoName(entries[j].name)}}

\* hasMatchingVideo requiring the basenames to be equal.
hasMatchingVideo_Exact(filename, videoBasenames) ==
  \E ext \in {ToLower(Ext(filename))} :
    \E basename \in {TrimSuffix(filename, ext)} :
      \E videoBase \in videoBasenames : ToLower(basename) = videoBase

\* main.go:325-334: the basename is the filename minus its LOWERCASED extension.
hasMatchingVideo(filename, videoBasenames) ==
  \E ext \in {ToLower(Ext(filename))} :
    \E basename \in {TrimSuffix(filename, ext)} :
      \E videoBase \in videoBasenames : HasPrefix(ToLower(basename), videoBase)

\* classifyFile without the test for a video file.
classifyFile_NoVideoTest(filePath, level, videoBasenames) ==
  IF hasMatchingVideo(Base(filePath), videoBasenames)
    THEN Warn("Metadata file at %s level (should be in title folder): %s", level, filePath, "")
  ELSE Emit("OrphanedFiles", filePath)

\* main.go:313-349: the append made for one file of the second pass.
classifyFile(filePath, level, videoBasenames) ==
  IF isVideoName(Base(filePath))
    THEN Warn("Video file at %s level (should be in title folder): %s", level, filePath, "")
  ELSE IF hasMatchingVideo(Base(filePath), videoBasenames)
    THEN Warn("Metadata file at %s level (should be in title folder): %s", level, filePath, "")
  ELSE Emit("OrphanedFiles", filePath)

\* main.go:295-310: the paths of the files among the entries.
filesOf(dirPath, entries) ==
  With(SelectSeq(entries, LAMBDA e : ~e.isDir),
       LAMBDA fileEntries : [i \in DOMAIN fileEntries |-> Join(dirPath, fileEntries[i].name)])

\* checkDirectChildren reporting a read failure as processStudio does.
checkDirectChildren_WarnOnError(f, dirPath, level) ==
  IF ReadDirErr(f, dirPath) # ""
    THEN << Warn("Cannot read %s directory: %s (%v)", level, dirPath, ReadDirErr(f, dirPath)) >>
  ELSE With(ReadDir(f, dirPath), LAMBDA entries :
         With(filesOf(dirPath, entries), LAMBDA files :
           With(videoBasenamesOf(entries), LAMBDA videoBasenames :
             [i \in DOMAIN files |-> classifyFile(files[i], level, videoBasenames)])))

\* main.go:288-350: the appends of checkDirectChildren, in order.
checkDirectChildren(f, dirPath, level) ==
  IF ReadDirErr(f, dirPath) # "" THEN << >>
  ELSE With(ReadDir(f, dirPath), LAMBDA entries :
         With(filesOf(dirPath, entries), LAMBDA files :
           With(videoBasenamesOf(entries), LAMBDA videoBasenames :
             [i \in DOMAIN files |-> classifyFile(files[i], level, videoBasenames)])))

\* hasVideoFile looking at the names of directories too.
hasVideoFile_DirsToo(entries) ==
  \E i \in DOMAIN entries : isVideoName(entries[i].name)

\* main.go:253-270: some non-directory entry is a video file.
hasVideoFile(entries) ==
  \E i \in DOMAIN entries : ~entries[i].isDir /\ isVideoName(entries[i].name)

\* unexpectedSubdirs without the isMetadataSubdir test.
unexpectedSubdirs_All(entries) ==
  With(SelectSeq(entries, LAMBDA e : e.isDir),
       LAMBDA subdirs : [i \in DOMAIN subdirs |-> subdirs[i].name])

\* main.go:254-264: the subdirectories that are no metadata subdirectory.
unexpectedSubdirs(entries) ==
  With(SelectSeq(entries, LAMBDA e : e.isDir /\ ~isMetadataSubdir(e.name)),
       LAMBDA subdirs : [i \in DOMAIN subdirs |-> subdirs[i].name])

\* processTitleFolder without its empty-folder test.
noEntries_Never(entries) == FALSE

\* main.go:245: the folder is empty.
noEntries(entries) == Len(entries) = 0

\* processTitleFolder returning after its warnings when there are any.
processTitleFolder_WarnOnly(f, titlePath) ==
  IF ReadDirErr(f, titlePath) # ""
    THEN << Warn("Cannot read title directory: %s (%v)", "", titlePath, ReadDirErr(f, titlePath)) >>
  ELSE With(ReadDir(f, titlePath), LAMBDA entries :
         IF noEntries(entries) THEN << Emit("EmptyFolders", titlePath) >>
         ELSE IF unexpectedSubdirs(entries) # << >>
           THEN With(unexpectedSubdirs(entries), LAMBDA subdirs :
                  [i \in DOMAIN subdirs |->
                     Warn("Unexpected subdirectory in title folder: %s", "",
                          Join(titlePath, subdirs[i]), "")])
         ELSE IF ~hasVideoFile(entries) THEN << Emit("OrphanedFolders", titlePath) >>
         ELSE << >>)

\* main.go:234-286: the appends of processTitleFolder, in order.
processTitleFolder(f, titlePath) ==
  IF ReadDirErr(f, titlePath) # ""
    THEN << Warn("Cannot read title directory: %s (%v)", "", titlePath, ReadDirErr(f, titlePath)) >>
  ELSE With(ReadDir(f, titlePath), LAMBDA entries :
         IF noEntries(entries) THEN << Emit("EmptyFolders", titlePath) >>
         ELSE With(unexpectedSubdirs(entries), LAMBDA subdirs :
                [i \in DOMAIN subdirs |->
                   Warn("Unexpected subdirectory in title folder: %s", "",
                        Join(titlePath, subdirs[i]), "")])
              \o (IF ~hasVideoFile(entries) /\ Len(entries) > 0
                    THEN << Emit("OrphanedFolders", titlePath) >>
                    ELSE << >>))

(***************************************************************************)
(* State.                                                                  *)
(***************************************************************************)
VARIABLES
  fs,            \* the filesystem: path -> "file" | "dir" | "noperm"
  libraryPaths,  \* main: flag.Args()
  numWorkers,    \* main: *workers
  result,        \* the shared CleanupResult: category -> sequence
  resultMu,      \* the goroutines holding resultMu (sync.Mutex)
  studioChan,    \* scanLibrary: studioChan [buf, cap, closed]
  wg,            \* scanLibrary: the sync.WaitGroup counter
  pc,            \* goroutine -> the statement it is at
  loc,           \* goroutine -> its local variables
  studioDirs,    \* scanLibrary: studioDirs
  root,          \* main: index of the library path being scanned
  idx,           \* scanLibrary: index of its loops over studioDirs
  emitted,       \* history: category -> bag of the values whose append completed
  execute,       \* main: *execute
  removed,       \* history: the os.RemoveAll and os.Remove calls made, in order
  di,            \* main: index of its deletion loops
  run            \* history: the number of the invocation of the program

vars == << fs, libraryPaths, numWorkers, result, resultMu, studioChan, wg,
           pc, loc, studioDirs, root, idx, emitted, execute, removed, di, run >>

Main == 0
Procs == 0..MaxWorkers
Workers == 1..MaxWorkers

NoLocal ==
  [dirPath |-> << >>, level |-> "", titles |-> << >>, pending |-> << >>,
   slice |-> << >>, ret |-> "", after |-> ""]

EmptyResult == [c \in Categories |-> << >>]

NoChan == [buf |-> << >>, cap |-> 0, closed |-> FALSE]

BagAdd(B, v) ==
  [x \in DOMAIN B \cup {v} |->
     IF x \in DOMAIN B THEN B[x] + (IF x = v THEN 1 ELSE 0) ELSE 1]

(***************************************************************************)
(* Appending to the result: Lock, the append (a read of the slice and a    *)
(* write of the extended slice), Unlock.  loc[g].pending holds the appends *)
(* the running function still has to make, loc[g].ret the statement that   *)
(* follows the last of them.                                               *)
(***************************************************************************)
\* The appends made without the mutex.
mutexFree_Unlocked(mu) == TRUE

\* sync.Mutex.Lock proceeds only when nobody holds the mutex.
mutexFree(mu) == mu = {}

Lock(g) ==
  /\ pc[g] = "lock"
  /\ mutexFree(resultMu)
  /\ resultMu' = resultMu \cup {g}
  /\ pc' = [pc EXCEPT ![g] = "load"]
  /\ UNCHANGED << fs, libraryPaths, numWorkers, result, studioChan, wg, loc,
                  studioDirs, root, idx, emitted,
                  execute, removed, di, run >>

AppendLoad(g) ==
  /\ pc[g] = "load"
  /\ loc' = [loc EXCEPT ![g].slice = result[Head(loc[g].pending).cat]]
  /\ pc' = [pc EXCEPT ![g] = "store"]
  /\ UNCHANGED << fs, libraryPaths, numWorkers, result, resultMu, studioChan, wg,
                  studioDirs, root, idx, emitted,
                  execute, removed, di, run >>

AppendStore(g) ==
  /\ pc[g] = "store"
  /\ LET e == Head(loc[g].pending)
     IN  /\ result' = [result EXCEPT ![e.cat] = Append(loc[g].slice, e.val)]
         /\ emitted' = [emitted EXCEPT ![e.cat] = BagAdd(emitted[e.cat], e.val)]
  /\ loc' = [loc EXCEPT ![g].slice = << >>]
  /\ pc' = [pc EXCEPT ![g] = "unlock"]
  /\ UNCHANGED << fs, libraryPaths, numWorkers, resultMu, studioChan, wg,
                  studioDirs, root, idx,
                  execute, removed, di, run >>

Unlock(g) ==
  /\ pc[g] = "unlock"
  /\ resultMu' = resultMu \ {g}
  /\ loc' = [loc EXCEPT ![g].pending = Tail(@)]
  /\ pc' = [pc EXCEPT ![g] = IF Tail(loc[g].pending) = << >> THEN loc[g].ret ELSE "lock"]
  /\ UNCHANGED << fs, libraryPaths, numWorkers, result, studioChan, wg,
                  studioDirs, root, idx, emitted,
                  execute, removed, di, run >>

\* The statement after a function has computed its appends.
afterRead(pending, ret) == IF pending = << >> THEN ret ELSE "lock"

(***************************************************************************)
(* checkDirectChildren, processStudio, processTitleFolder as run by a      *)
(* goroutine.                                                              *)
(***************************************************************************)
CheckDirectChildrenCall(g) ==
  /\ pc[g] = "cdc"
  /\ \E pending \in {checkDirectChildren(fs, loc[g].dirPath, loc[g].level)} :
       /\ loc' = [loc EXCEPT ![g].pending = pending]
       /\ pc' = [pc EXCEPT ![g] = afterRead(pending, loc[g].ret)]
  /\ UNCHANGED << fs, libraryPaths, numWorkers, result, resultMu, studioChan, wg,
                  studioDirs, root, idx, emitted,
                  execute, removed, di, run >>

\* The loop over the entries started at the second entry.
dirPaths_SkipFirst(f, dirPath) ==
  With(SelectSeq(SubSeq(ReadDir(f, dirPath), 2, Len(ReadDir(f, dirPath))),
                 LAMBDA e : e.isDir),
       LAMBDA subdirs : [i \in DOMAIN subdirs |-> Join(dirPath, subdirs[i].name)])

\* main.go:174-178, 224-229: the subdirectories of a directory, in entry order.
dirPaths(f, dirPath) ==
  With(SelectSeq(ReadDir(f, dirPath), LAMBDA e : e.isDir),
       LAMBDA subdirs : [i \in DOMAIN subdirs |-> Join(dirPath, subdirs[i].name)])

\* main.go:215-231, after checkDirectChildren returned.
ProcessStudioRead(g) ==
  /\ pc[g] = "readstudio"
  /\ LET studioPath == loc[g].dirPath
         err == ReadDirErr(fs, studioPath)
     IN  IF err # ""
           THEN /\ loc' = [loc EXCEPT ![g].pending =
                            << Warn("Cannot read studio directory: %s (%v)", "", studioPath, err) >>,
                                      ![g].ret = loc[g].after]
                /\ pc' = [pc EXCEPT ![g] = "lock"]
           ELSE \E titles \in {dirPaths(fs, studioPath)} :
                  /\ loc' = [loc EXCEPT ![g].titles = titles]
                  /\ pc' = [pc EXCEPT ![g] = IF titles = << >> THEN loc[g].after ELSE "title"]
  /\ UNCHANGED << fs, libraryPaths, numWorkers, result, resultMu, studioChan, wg,
                  studioDirs, root, idx, emitted,
                  execute, removed, di, run >>

ProcessTitleFolderCall(g) ==
  /\ pc[g] = "title"
  /\ \E pending \in {processTitleFolder(fs, Head(loc[g].titles))} :
       LET rest == Tail(loc[g].titles)
           ret == IF rest = << >> THEN loc[g].after ELSE "title"
       IN  /\ loc' = [loc EXCEPT ![g].pending = pending, ![g].titles = rest, ![g].ret = ret]
           /\ pc' = [pc EXCEPT ![g] = afterRead(pending, ret)]
  /\ UNCHANGED << fs, libraryPaths, numWorkers, result, resultMu, studioChan, wg,
                  studioDirs, root, idx, emitted,
                  execute, removed, di, run >>

(***************************************************************************)
(* The workers of scanLibrary (main.go:186-191).                           *)
(***************************************************************************)
WorkerReceive(w) ==
  /\ pc[w] = "recv"
  /\ studioChan.buf # << >>
  /\ studioChan' = [studioChan EXCEPT !.buf = Tail(@)]
  /\ loc' = [loc EXCEPT ![w] = [NoLocal EXCEPT !.dirPath = Head(studioChan.buf),
                                              !.level = "studio",
                                              !.ret = "readstudio",
                                              !.after = "recv"]]
  /\ pc' = [pc EXCEPT ![w] = "cdc"]
  /\ UNCHANGED << fs, libraryPaths, numWorkers, result, resultMu, wg,
                  studioDirs, root, idx, emitted,
                  execute, removed, di, run >>

\* A worker that stops at the close, whatever is still buffered.
chanDrained_ClosedOnly(ch) == ch.closed

\* main.go:188: the range over studioChan ends when it is closed and drained.
chanDrained(ch) == ch.buf = << >> /\ ch.closed

WorkerExit(w) ==
  /\ pc[w] = "recv"
  /\ chanDrained(studioChan)
  /\ wg' = wg - 1
  /\ loc' = [loc EXCEPT ![w] = NoLocal]
  /\ pc' = [pc EXCEPT ![w] = "done"]
  /\ UNCHANGED << fs, libraryPaths, numWorkers, result, resultMu, studioChan,
                  studioDirs, root, idx, emitted,
                  execute, removed, di, run >>

(***************************************************************************)
(* main's loop over the library paths and scanLibrary (main.go:54-57,      *)
(* 150-208), run by goroutine Main.                                        *)
(***************************************************************************)
MainLoop ==
  /\ pc[Main] = "main"
  /\ pc' = [pc EXCEPT ![Main] = IF root <= Len(libraryPaths) THEN "stat" ELSE "report"]
  /\ UNCHANGED << fs, libraryPaths, numWorkers, result, resultMu, studioChan, wg, loc,
                  studioDirs, root, idx, emitted,
                  execute, removed, di, run >>

\* main.go:152-160: os.Stat fails or the path is no directory.
badLibraryPath(f, libraryPath) ==
  libraryPath \notin DOMAIN f \/ f[libraryPath] = "file"

\* A bad library path that ends the loop over the library paths.
afterStat_SkipRest(f, libraryPath) ==
  IF badLibraryPath(f, libraryPath) THEN "report" ELSE "cdc"

\* main.go:152-163: scanLibrary returns on a bad path, else goes on.
afterStat(f, libraryPath) ==
  IF badLibraryPath(f, libraryPath) THEN "returned" ELSE "cdc"

\* A CleanupResult made anew for each scanLibrary call.
resultAtScan_Fresh(res) == [c \in Categories |-> << >>]

\* main.go:51, 56: every scanLibrary call gets the one result main made.
resultAtScan(res) == res

\* main.go:56, 152-163: the call of scanLibrary and its os.Stat of the
\* library path.
ScanLibraryStat ==
  /\ pc[Main] = "stat"
  /\ LET libraryPath == libraryPaths[root]
     IN  /\ pc' = [pc EXCEPT ![Main] = afterStat(fs, libraryPath)]
         /\ IF badLibraryPath(fs, libraryPath)
              THEN loc' = loc
              ELSE loc' = [loc EXCEPT ![Main] = [NoLocal EXCEPT !.dirPath = libraryPath,
                                                               !.level = "library",
                                                               !.ret = "readdir"]]
  /\ result' = resultAtScan(result)
  /\ UNCHANGED << fs, libraryPaths, numWorkers, resultMu, studioChan, wg,
                  studioDirs, root, idx, emitted,
                  execute, removed, di, run >>

\* main.go:166-178: the studio directories of the library.
ScanLibraryReadDir ==
  /\ pc[Main] = "readdir"
  /\ LET libraryPath == libraryPaths[root]
     IN  IF ReadDirErr(fs, libraryPath) # ""
           THEN /\ pc' = [pc EXCEPT ![Main] = "returned"]
                /\ studioDirs' = << >>
           ELSE /\ pc' = [pc EXCEPT ![Main] = "spawn"]
                /\ studioDirs' = dirPaths(fs, libraryPath)
  /\ UNCHANGED << fs, libraryPaths, numWorkers, result, resultMu, studioChan, wg, loc,
                      root, idx, emitted,
                  execute, removed, di, run >>

\* An unbuffered studioChan.
chanCap_Unbuffered(dirs) == 0

\* main.go:181: the capacity of studioChan.
chanCap(dirs) == Len(dirs)

\* The loop written i <= numWorkers.
started_OneMore(n) == 1..(n + 1)

\* main.go:184: the goroutines started by the loop i < numWorkers.
started(n) == 1..n

\* main.go:181-192.
ScanLibrarySpawn ==
  /\ pc[Main] = "spawn"
  /\ studioChan' = [buf |-> << >>, cap |-> chanCap(studioDirs), closed |-> FALSE]
  /\ wg' = Cardinality(started(numWorkers))
  /\ pc' = [g \in Procs |-> IF g = Main THEN "send"
                            ELSE IF g \in started(numWorkers) THEN "recv" ELSE pc[g]]
  /\ idx' = 1
  /\ UNCHANGED << fs, libraryPaths, numWorkers, result, resultMu, loc,
                  studioDirs, root, emitted,
                  execute, removed, di, run >>

\* main.go:194-196: a send blocks while the buffer is full.
ScanLibrarySend ==
  /\ pc[Main] = "send"
  /\ idx <= Len(studioDirs)
  /\ Len(studioChan.buf) < studioChan.cap
  /\ studioChan' = [studioChan EXCEPT !.buf = Append(@, studioDirs[idx])]
  /\ idx' = idx + 1
  /\ UNCHANGED << fs, libraryPaths, numWorkers, result, resultMu, wg, pc, loc,
                  studioDirs, root, emitted,
                  execute, removed, di, run >>

\* main.go:197.
closeChan(ch) == [ch EXCEPT !.closed = TRUE]

ScanLibraryClose ==
  /\ pc[Main] = "send"
  /\ idx > Len(studioDirs)
  /\ studioChan' = closeChan(studioChan)
  /\ pc' = [pc EXCEPT ![Main] = "wait"]
  /\ UNCHANGED << fs, libraryPaths, numWorkers, result, resultMu, wg, loc,
                  studioDirs, root, idx, emitted,
                  execute, removed, di, run >>

\* scanLibrary without wg.Wait.
waitDone_NoWait(counter) == TRUE

\* main.go:198: wg.Wait returns when the counter is zero.
waitDone(counter) == counter = 0

ScanLibraryWait ==
  /\ pc[Main] = "wait"
  /\ waitDone(wg)
  /\ pc' = [pc EXCEPT ![Main] = "second"]
  /\ idx' = 1
  /\ UNCHANGED << fs, libraryPaths, numWorkers, result, resultMu, studioChan, wg, loc,
                  studioDirs, root, emitted,
                  execute, removed, di, run >>

\* main.go:201-207: one studio of the second pass.
ScanLibraryEmptyStudio ==
  /\ pc[Main] = "second"
  /\ idx <= Len(studioDirs)
  /\ idx' = idx + 1
  /\ IF isDirEmpty(fs, studioDirs[idx])
       THEN /\ loc' = [loc EXCEPT ![Main].pending = << Emit("EmptyFolders", studioDirs[idx]) >>,
                                  ![Main].ret = "second"]
            /\ pc' = [pc EXCEPT ![Main] = "lock"]
       ELSE /\ loc' = loc
            /\ pc' = pc
  /\ UNCHANGED << fs, libraryPaths, numWorkers, result, resultMu, studioChan, wg,
                  studioDirs, root, emitted,
                  execute, removed, di, run >>

\* main.go:208: scanLibrary returns.
ScanLibraryReturn ==
  /\ pc[Main] = "second"
  /\ idx > Len(studioDirs)
  /\ pc' = [pc EXCEPT ![Main] = "returned"]
  /\ UNCHANGED << fs, libraryPaths, numWorkers, result, resultMu, studioChan, wg, loc,
                  studioDirs, root, idx, emitted,
                  execute, removed, di, run >>

\* main.go:54: the next library path.
MainNextLibrary ==
  /\ pc[Main] = "returned"
  /\ root' = root + 1
  /\ pc' = [pc EXCEPT ![Main] = "main"]
  /\ UNCHANGED << fs, libraryPaths, numWorkers, result, resultMu, studioChan, wg, loc,
                  studioDirs, idx, emitted,
                  execute, removed, di, run >>

(***************************************************************************)
(* The report and the deletion pass of main (main.go:59-147).              *)
(***************************************************************************)
\* Path d is p or an ancestor of p.
IsPrefixPath(d, p) == Len(d) <= Len(p) /\ SubSeq(p, 1, Len(d)) = d

\* os.Stat(path) fails with an error for which os.IsNotExist holds.
IsNotExist(f, path) == path \notin DOMAIN f

Without(f, paths) == [p \in DOMAIN f \ paths |-> f[p]]

\* os.Remove: removes a file or a directory that has no entries; "" or the error.
RemoveErr(f, path) ==
  IF path \notin DOMAIN f THEN "no such file or directory"
  ELSE IF f[path] # "file" /\ Children(f, path) # {} THEN "directory not empty"
  ELSE ""

Remove(f, path) == IF RemoveErr(f, path) = "" THEN Without(f, {path}) ELSE f

\* os.RemoveAll: removes path and everything beneath it that it can reach;
\* a directory it cannot read keeps its entries and so stays, with its
\* ancestors.
RemoveAll(f, path) ==
  With({d \in DOMAIN f : /\ IsPrefixPath(path, d)
                          /\ f[d] = "noperm"
                          /\ Children(f, d) # {}},
       LAMBDA blocked :
         Without(f, {p \in DOMAIN f :
                       /\ IsPrefixPath(path, p)
                       /\ \A d \in blocked : ~IsPrefixPath(d, p) /\ ~IsPrefixPath(p, d)}))

Call(op, path) == [op |-> op, path |-> path]

\* A deletion pass that also removes what the warnings name.
foldersToRemoveAll_WithWarned(res) ==
  res["OrphanedFolders"]
    \o [i \in DOMAIN res["StructureWarnings"] |-> res["StructureWarnings"][i].path]

\* main.go:99: the folders removed recursively.
foldersToRemoveAll(res) == res["OrphanedFolders"]

\* main.go:110: the files removed.
filesToRemove(res) == res["OrphanedFiles"]

\* The empty folders removed in the order they were listed.
foldersToRemove_InOrder(res) == res["EmptyFolders"]

\* main.go:124-125: the folders removed when empty, last listed first.
foldersToRemove(res) ==
  [i \in DOMAIN res["EmptyFolders"] |->
     res["EmptyFolders"][Len(res["EmptyFolders"]) + 1 - i]]

\* A deletion pass that runs whatever the flag.
deletionRequested_Always(flag) == TRUE

\* main.go:91: the deletion pass runs only with --execute.
deletionRequested(flag) == flag

\* main.go:59-97: the report; then the deletion pass or the summary.
MainReport ==
  /\ pc[Main] = "report"
  /\ pc' = [pc EXCEPT ![Main] = IF deletionRequested(execute) THEN "removeall" ELSE "exit"]
  /\ di' = 1
  /\ UNCHANGED << fs, libraryPaths, numWorkers, result, resultMu, studioChan, wg, loc,
                  studioDirs, root, idx, emitted, execute, removed, run >>

\* main.go:99-107: os.RemoveAll of one orphaned folder.
RemoveOrphanedFolder ==
  /\ pc[Main] = "removeall"
  /\ di <= Len(foldersToRemoveAll(result))
  /\ \E folder \in {foldersToRemoveAll(result)[di]} :
       /\ fs' = RemoveAll(fs, folder)
       /\ removed' = Append(removed, Call("RemoveAll", folder))
  /\ di' = di + 1
  /\ UNCHANGED << libraryPaths, numWorkers, result, resultMu, studioChan, wg, pc, loc,
                  studioDirs, root, idx, emitted, execute, run >>

\* main.go:110-121: os.Remove of one orphaned file, unless it is gone.
RemoveOrphanedFile ==
  /\ pc[Main] = "removefiles"
  /\ di <= Len(filesToRemove(result))
  /\ \E file \in {filesToRemove(result)[di]} :
       IF IsNotExist(fs, file)
         THEN UNCHANGED << fs, removed >>
         ELSE /\ fs' = Remove(fs, file)
              /\ removed' = Append(removed, Call("Remove", file))
  /\ di' = di + 1
  /\ UNCHANGED << libraryPaths, numWorkers, result, resultMu, studioChan, wg, pc, loc,
                  studioDirs, root, idx, emitted, execute, run >>

\* main.go:124-137: os.Remove of one empty folder, unless it is gone.
RemoveEmptyFolder ==
  /\ pc[Main] = "removeempty"
  /\ di <= Len(foldersToRemove(result))
  /\ \E folder \in {foldersToRemove(result)[di]} :
       IF IsNotExist(fs, folder)
         THEN UNCHANGED << fs, removed >>
         ELSE /\ fs' = Remove(fs, folder)
              /\ removed' = Append(removed, Call("Remove", folder))
  /\ di' = di + 1
  /\ UNCHANGED << libraryPaths, numWorkers, result, resultMu, studioChan, wg, pc, loc,
                  studioDirs, root, idx, emitted, execute, run >>

\* main.go:107-110, 121-124, 137-139: the end of one loop of the deletion pass.
DeletionNextLoop ==
  /\ \/ /\ pc[Main] = "removeall"
        /\ di > Len(foldersToRemoveAll(result))
        /\ pc' = [pc EXCEPT ![Main] = "removefiles"]
     \/ /\ pc[Main] = "removefiles"
        /\ di > Len(filesToRemove(result))
        /\ pc' = [pc EXCEPT ![Main] = "removeempty"]
     \/ /\ pc[Main] = "removeempty"
        /\ di > Len(foldersToRemove(result))
        /\ pc' = [pc EXCEPT ![Main] = "exit"]
  /\ di' = 1
  /\ UNCHANGED << fs, libraryPaths, numWorkers, result, resultMu, studioChan, wg, loc,
                  studioDirs, root, idx, emitted, execute, removed, run >>

(***************************************************************************)
(* Names used by the directory trees of the model.                         *)
(***************************************************************************)
n_lib == << "l", "i", "b" >>
n_title == << "t", "i", "t", "l", "e" >>
n_StudioA == << "A" >>
n_StudioB == << "B" >>
n_StudioC == << "C" >>
n_StudioD == << "D" >>
n_Movie1 == << "M", "1" >>
n_Movie2 == << "M", "2" >>
n_movie_mkv == << "m", "o", "v", "i", "e", ".", "m", "k", "v" >>
n_movie_nfo == << "m", "o", "v", "i", "e", ".", "n", "f", "o" >>
n_Movie_NFO == << "M", "o", "v", "i", "e", ".", "N", "F", "O" >>
n_movie_poster_jpg == << "m", "o", "v", "i", "e", "-", "p", "o", "s", "t", "e", "r", ".", "j", "p", "g" >>
n_deleted_nfo == << "d", "e", "l", "e", "t", "e", "d", ".", "n", "f", "o" >>
n_movie_n_mkv == << "m", "o", "v", "i", "e", ".", "n", ".", "m", "k", "v" >>
n_MOVIE_MP4 == << "M", "O", "V", "I", "E", ".", "M", "P", "4" >>
n_movie2_nfo == << "m", "o", "v", "i", "e", "2", ".", "n", "f", "o" >>
n_readme_txt == << "r", "e", "a", "d", "m", "e", ".", "t", "x", "t" >>
n_dot_mkv == << ".", "m", "k", "v" >>
n_clip_mkv == << "c", "l", "i", "p", ".", "m", "k", "v" >>
n_clip_nfo == << "c", "l", "i", "p", ".", "n", "f", "o" >>
n_poster_jpg == << "p", "o", "s", "t", "e", "r", ".", "j", "p", "g" >>
n_film_AVI == << "f", "i", "l", "m", ".", "A", "V", "I" >>
n_film_M4v == << "f", "i", "l", "m", ".", "M", "4", "v" >>
n_dot_nfo == << ".", "n", "f", "o" >>
n_mkv == << "m", "k", "v" >>
n_movie_trickplay == << "m", "o", "v", "i", "e", ".", "t", "r", "i", "c", "k", "p", "l", "a", "y" >>
n_MOVIE_TRICKPLAY == << "M", "O", "V", "I", "E", ".", "T", "R", "I", "C", "K", "P", "L", "A", "Y" >>
n_extras == << "e", "x", "t", "r", "a", "s" >>
n_trickplay == << "t", "r", "i", "c", "k", "p", "l", "a", "y" >>
n_m_mkv == << "m", ".", "m", "k", "v" >>
n_m_nfo == << "m", ".", "n", "f", "o" >>
n_d_nfo == << "d", ".", "n", "f", "o" >>
n_x == << "x" >>
n_tv == << "t", "v" >>
n_nonexistent == << "n", "o", "n", "e", "x", "i", "s", "t", "e", "n", "t" >>
n_notadirectory_txt ==
  << "n", "o", "t", "a", "d", "i", "r", "e", "c", "t", "o", "r", "y", ".", "t", "x", "t" >>

(***************************************************************************)
(* Directory trees.  A tree is given by its nodes << path, kind >>.        *)
(***************************************************************************)
TreeOf(nodes) ==
  [p \in {n[1] : n \in nodes} |-> (CHOOSE n \in nodes : n[1] = p)[2]]

LibraryRoot == << n_lib >>

StudioNames == << n_StudioA, n_StudioB, n_StudioC, n_StudioD >>

\* The studios a library of the model is built from, for a studio at path s:
\*  1 an empty studio; 2 an orphaned and an empty title folder; 3 a stray file
\*  and a title folder with a video and an unexpected subdirectory; 4 a studio
\*  that cannot be read; 5 a title folder that cannot be read beside a valid one;
\*  6 a title folder with metadata and a subdirectory that holds a video.
StudioShapes(s) ==
  << { << s, "dir" >> },
     { << s, "dir" >>,
       << Join(s, n_Movie1), "dir" >>,
       << Join(Join(s, n_Movie1), n_m_nfo), "file" >>,
       << Join(s, n_Movie2), "dir" >> },
     { << s, "dir" >>,
       << Join(s, n_d_nfo), "file" >>,
       << Join(s, n_Movie1), "dir" >>,
       << Join(Join(s, n_Movie1), n_m_mkv), "file" >>,
       << Join(Join(s, n_Movie1), n_x), "dir" >> },
     { << s, "noperm" >> },
     { << s, "dir" >>,
       << Join(s, n_Movie1), "noperm" >>,
       << Join(s, n_Movie2), "dir" >>,
       << Join(Join(s, n_Movie2), n_m_mkv), "file" >>,
       << Join(Join(s, n_Movie2), n_m_nfo), "file" >> },
     { << s, "dir" >>,
       << Join(s, n_Movie1), "dir" >>,
       << Join(Join(s, n_Movie1), n_m_nfo), "file" >>,
       << Join(Join(s, n_Movie1), n_x), "dir" >>,
       << Join(Join(Join(s, n_Movie1), n_x), n_m_mkv), "file" >> } >>

NumShapes == Len(StudioShapes(LibraryRoot))

\* The files directly in the library: none, or a video with its metadata and
\* a stray metadata file.
LibraryFiles ==
  << { },
     { << Join(LibraryRoot, n_m_mkv), "file" >>,
       << Join(LibraryRoot, n_m_nfo), "file" >>,
       << Join(LibraryRoot, n_d_nfo), "file" >> } >>

\* The library with k studios, studio i of shape base + (i-1)*stride.
LibraryTree(k, base, stride, files) ==
  TreeOf({ << LibraryRoot, "dir" >> }
         \cup LibraryFiles[files]
         \cup UNION { StudioShapes(Join(LibraryRoot, StudioNames[i]))
                        [((base + (i - 1) * stride) % NumShapes) + 1] : i \in 1..k })

LibraryTrees ==
  { LibraryTree(k, base, stride, files) :
      k \in 0..MaxStudios, base \in 0..(NumShapes - 1), stride \in 0..(NumShapes - 1),
      files \in DOMAIN LibraryFiles }

(***************************************************************************)
(* The program: main scans one library with numWorkers workers.            *)
(***************************************************************************)
Init ==
  /\ fs \in LibraryTrees
  /\ libraryPaths = << LibraryRoot >>
  /\ numWorkers \in -1..MaxWorkers
  /\ result = EmptyResult
  /\ resultMu = {}
  /\ studioChan = NoChan
  /\ wg = 0
  /\ pc = [g \in Procs |-> IF g = Main THEN "main" ELSE "idle"]
  /\ loc = [g \in Procs |-> NoLocal]
  /\ studioDirs = << >>
  /\ root = 1
  /\ idx = 1
  /\ emitted = EmptyResult
  /\ execute = FALSE
  /\ removed = << >>
  /\ di = 1
  /\ run = 1

Next ==
  \/ MainLoop
  \/ ScanLibraryStat
  \/ ScanLibraryReadDir
  \/ ScanLibrarySpawn
  \/ ScanLibrarySend
  \/ ScanLibraryClose
  \/ ScanLibraryWait
  \/ ScanLibraryEmptyStudio
  \/ ScanLibraryReturn
  \/ MainNextLibrary
  \/ \E w \in Workers : WorkerReceive(w)
  \/ \E w \in Workers : WorkerExit(w)
  \/ \E g \in Procs : CheckDirectChildrenCall(g)
  \/ \E g \in Procs : ProcessStudioRead(g)
  \/ \E g \in Procs : ProcessTitleFolderCall(g)
  \/ \E g \in Procs : Lock(g)
  \/ \E g \in Procs : AppendLoad(g)
  \/ \E g \in Procs : AppendStore(g)
  \/ \E g \in Procs : Unlock(g)

Spec == Init /\ [][Next]_vars

(***************************************************************************)
(* A batch: main scans up to MaxRoots library paths, each a library, a     *)
(* second library, a path that does not exist or a file                    *)
(* (README.md:712-734, 834-864).                                           *)
(***************************************************************************)
SecondRoot == << n_tv >>
MissingRoot == << n_nonexistent >>
FileRoot == << n_notadirectory_txt >>

RootPool == {LibraryRoot, SecondRoot, MissingRoot, FileRoot}

\* The sequences of 1..n paths of the pool.
RECURSIVE PathSeqs(_, _)
PathSeqs(pool, n) ==
  IF n = 0 THEN { << >> }
  ELSE LET shorter == PathSeqs(pool, n - 1)
       IN  shorter \cup { Append(q, r) : q \in shorter, r \in pool }

\* The first library has a studio with an orphaned and an empty title folder
\* and files of its own, the second a studio with a stray file and a valid
\* title folder; notadirectory.txt is a file.
BatchTree ==
  TreeOf({ << LibraryRoot, "dir" >>, << SecondRoot, "dir" >>, << FileRoot, "file" >> }
         \cup LibraryFiles[2]
         \cup StudioShapes(Join(LibraryRoot, StudioNames[1]))[2]
         \cup StudioShapes(Join(SecondRoot, StudioNames[1]))[3])

InitBatch ==
  /\ fs = BatchTree
  /\ libraryPaths \in PathSeqs(RootPool, MaxRoots) \ { << >> }
  /\ numWorkers \in -1..MaxWorkers
  /\ result = EmptyResult
  /\ resultMu = {}
  /\ studioChan = NoChan
  /\ wg = 0
  /\ pc = [g \in Procs |-> IF g = Main THEN "main" ELSE "idle"]
  /\ loc = [g \in Procs |-> NoLocal]
  /\ studioDirs = << >>
  /\ root = 1
  /\ idx = 1
  /\ emitted = EmptyResult
  /\ execute = FALSE
  /\ removed = << >>
  /\ di = 1
  /\ run = 1

SpecBatch == InitBatch /\ [][Next]_vars

(***************************************************************************)
(* A whole run of main, with or without --execute: the scan, the report    *)
(* and the deletion pass.                                                  *)
(***************************************************************************)
InitRun ==
  /\ fs \in LibraryTrees
  /\ libraryPaths = << LibraryRoot >>
  /\ numWorkers \in -1..MaxWorkers
  /\ execute \in BOOLEAN
  /\ result = EmptyResult
  /\ resultMu = {}
  /\ studioChan = NoChan
  /\ wg = 0
  /\ pc = [g \in Procs |-> IF g = Main THEN "main" ELSE "idle"]
  /\ loc = [g \in Procs |-> NoLocal]
  /\ studioDirs = << >>
  /\ root = 1
  /\ idx = 1
  /\ emitted = EmptyResult
  /\ removed = << >>
  /\ di = 1
  /\ run = 1

NextRun ==
  \/ Next
  \/ MainReport
  \/ RemoveOrphanedFolder
  \/ RemoveOrphanedFile
  \/ RemoveEmptyFolder
  \/ DeletionNextLoop

SpecRun == InitRun /\ [][NextRun]_vars

(***************************************************************************)
(* The program run with --execute and, after it has exited, run again on   *)
(* the same library paths with the same flags: up to MaxRuns invocations.  *)
(* A new invocation starts from a new CleanupResult (main.go:51) on the    *)
(* filesystem the last one left.                                           *)
(***************************************************************************)
MainRerun ==
  /\ pc[Main] = "exit"
  /\ run < MaxRuns
  /\ run' = run + 1
  /\ result' = EmptyResult
  /\ resultMu' = {}
  /\ studioChan' = NoChan
  /\ wg' = 0
  /\ pc' = [g \in Procs |-> IF g = Main THEN "main" ELSE "idle"]
  /\ loc' = [g \in Procs |-> NoLocal]
  /\ studioDirs' = << >>
  /\ root' = 1
  /\ idx' = 1
  /\ emitted' = EmptyResult
  /\ di' = 1
  /\ UNCHANGED << fs, libraryPaths, numWorkers, execute, removed >>

NextRerun ==
  \/ NextRun
  \/ MainRerun

\* The first invocation is made with --execute.
InitRerun ==
  /\ InitRun
  /\ execute = TRUE

SpecRerun == InitRerun /\ [][NextRerun]_vars

(***************************************************************************)
(* A whole run of main over a batch of library paths.                      *)
(***************************************************************************)
InitBatchRun ==
  /\ fs = BatchTree
  /\ libraryPaths \in PathSeqs(RootPool, MaxRoots) \ { << >> }
  /\ numWorkers \in -1..MaxWorkers
  /\ execute \in BOOLEAN
  /\ result = EmptyResult
  /\ resultMu = {}
  /\ studioChan = NoChan
  /\ wg = 0
  /\ pc = [g \in Procs |-> IF g = Main THEN "main" ELSE "idle"]
  /\ loc = [g \in Procs |-> NoLocal]
  /\ studioDirs = << >>
  /\ root = 1
  /\ idx = 1
  /\ emitted = EmptyResult
  /\ removed = << >>
  /\ di = 1
  /\ run = 1

SpecBatchRun == InitBatchRun /\ [][NextRun]_vars

(***************************************************************************)
(* processTitleFolder called on its own, as the tests of                   *)
(* README.md:363-585 call it: goroutine Main runs it on one title folder   *)
(* whose entries are drawn from TitleEntryPool.                            *)
(***************************************************************************)
TitlePath == << n_title >>

TitleEntryPool ==
  { << n_movie_mkv, "file" >>, << n_MOVIE_MP4, "file" >>, << n_film_AVI, "file" >>,
    << n_film_M4v, "file" >>, << n_movie_nfo, "file" >>, << n_poster_jpg, "file" >>,
    << n_dot_nfo, "file" >>, << n_mkv, "file" >>,
    << n_movie_trickplay, "dir" >>, << n_MOVIE_TRICKPLAY, "dir" >>,
    << n_extras, "dir" >>, << n_trickplay, "dir" >>, << n_clip_mkv, "dir" >> }

\* The subsets of a pool with at most MaxDirEntries entries.
RECURSIVE SmallSubsets(_, _)
SmallSubsets(pool, n) ==
  IF n = 0 THEN { {} }
  ELSE LET smaller == SmallSubsets(pool, n - 1)
       IN  smaller \cup { S \cup {e} : S \in smaller, e \in pool }

\* A directory with the given entries; a subdirectory extras holds a video.
DirTree(dirPath, kind, entries) ==
  TreeOf({ << dirPath, kind >> }
         \cup { << Join(dirPath, e[1]), e[2] >> : e \in entries }
         \cup { << Join(Join(dirPath, e[1]), n_movie_mkv), "file" >> :
                  e \in { d \in entries : d[1] = n_extras } })

InitUnit ==
  /\ libraryPaths = << >>
  /\ numWorkers = 0
  /\ result = EmptyResult
  /\ resultMu = {}
  /\ studioChan = NoChan
  /\ wg = 0
  /\ studioDirs = << >>
  /\ root = 1
  /\ idx = 1
  /\ emitted = EmptyResult
  /\ execute = FALSE
  /\ removed = << >>
  /\ di = 1
  /\ run = 1

InitTitle ==
  /\ fs \in { DirTree(TitlePath, kind, entries) :
                kind \in {"dir", "noperm"},
                entries \in SmallSubsets(TitleEntryPool, MaxDirEntries) }
  /\ pc = [g \in Procs |-> IF g = Main THEN "title" ELSE "idle"]
  /\ loc = [g \in Procs |-> IF g = Main
                              THEN [NoLocal EXCEPT !.titles = << TitlePath >>, !.after = "done"]
                              ELSE NoLocal]
  /\ InitUnit

NextTitle ==
  \/ ProcessTitleFolderCall(Main)
  \/ Lock(Main)
  \/ AppendLoad(Main)
  \/ AppendStore(Main)
  \/ Unlock(Main)

SpecTitle == InitTitle /\ [][NextTitle]_vars

(***************************************************************************)
(* checkDirectChildren called on its own, as the tests of                  *)
(* README.md:244-357 call it, on a directory whose entries are drawn from  *)
(* LevelEntryPool, with either level label.                                *)
(***************************************************************************)
LevelEntryPool ==
  { << n_movie_mkv, "file" >>, << n_MOVIE_MP4, "file" >>, << n_movie_n_mkv, "file" >>,
    << n_dot_mkv, "file" >>, << n_movie_nfo, "file" >>, << n_Movie_NFO, "file" >>,
    << n_movie_poster_jpg, "file" >>, << n_movie2_nfo, "file" >>,
    << n_deleted_nfo, "file" >>, << n_readme_txt, "file" >>, << n_clip_nfo, "file" >>,
    << n_clip_mkv, "dir" >>, << n_extras, "dir" >> }

InitLevel ==
  /\ fs \in { DirTree(LibraryRoot, kind, entries) :
                kind \in {"dir", "noperm"},
                entries \in SmallSubsets(LevelEntryPool, MaxDirEntries) }
  /\ pc = [g \in Procs |-> IF g = Main THEN "cdc" ELSE "idle"]
  /\ \E level \in {"library", "studio"} :
       loc = [g \in Procs |-> IF g = Main
                                THEN [NoLocal EXCEPT !.dirPath = LibraryRoot,
                                                     !.level = level,
                                                     !.ret = "done"]
                                ELSE NoLocal]
  /\ InitUnit

NextLevel ==
  \/ CheckDirectChildrenCall(Main)
  \/ Lock(Main)
  \/ AppendLoad(Main)
  \/ AppendStore(Main)
  \/ Unlock(Main)

SpecLevel == InitLevel /\ [][NextLevel]_vars

(***************************************************************************)
(* processStudio called on its own, as the tests of README.md:584-647      *)
(* call it: goroutine Main runs it on one studio whose entries are drawn   *)
(* from StudioEntryPool, the entries of its title folder M1 from           *)
(* StudioTitlePool.                                                        *)
(***************************************************************************)
StudioPath == << n_lib, n_StudioA >>

StudioEntryPool ==
  { << n_clip_mkv, "dir" >>, << n_clip_nfo, "file" >>, << n_movie_mkv, "file" >>,
    << n_movie_nfo, "file" >>, << n_Movie1, "dir" >> }

StudioTitlePool ==
  { << n_clip_mkv, "dir" >>, << n_m_nfo, "file" >>, << n_m_mkv, "file" >>,
    << n_x, "dir" >>, << n_movie_trickplay, "dir" >> }

StudioTree(entries, titleEntries) ==
  TreeOf({ << LibraryRoot, "dir" >>, << StudioPath, "dir" >> }
         \cup { << Join(StudioPath, e[1]), e[2] >> : e \in entries }
         \cup { << Join(Join(StudioPath, n_Movie1), e[1]), e[2] >> : e \in titleEntries })

InitStudio ==
  /\ fs \in UNION { { StudioTree(entries, titleEntries) :
                        titleEntries \in (IF << n_Movie1, "dir" >> \in entries
                                            THEN SmallSubsets(StudioTitlePool, MaxDirEntries)
                                            ELSE { {} }) } :
                    entries \in SmallSubsets(StudioEntryPool, MaxDirEntries) }
  /\ pc = [g \in Procs |-> IF g = Main THEN "cdc" ELSE "idle"]
  /\ loc = [g \in Procs |-> IF g = Main
                              THEN [NoLocal EXCEPT !.dirPath = StudioPath,
                                                   !.level = "studio",
                                                   !.ret = "readstudio",
                                                   !.after = "done"]
                              ELSE NoLocal]
  /\ InitUnit

NextStudio ==
  \/ CheckDirectChildrenCall(Main)
  \/ ProcessStudioRead(Main)
  \/ ProcessTitleFolderCall(Main)
  \/ Lock(Main)
  \/ AppendLoad(Main)
  \/ AppendStore(Main)
  \/ Unlock(Main)

SpecStudio == InitStudio /\ [][NextStudio]_vars

(***************************************************************************)
(* A library with directories that cannot be read although they have       *)
(* entries (permission denied), scanned by at least one worker.            *)
(***************************************************************************)
\* The studios of such a library, for a studio at path s: 1 an unreadable
\*  studio that holds a title folder; 2 an unreadable title folder that holds
\*  a file, beside an orphaned title folder; 3 an unreadable studio without
\*  entries; 4 a stray file, an unreadable title folder and an empty one.
UnreadableShapes(s) ==
  << { << s, "noperm" >>,
       << Join(s, n_Movie1), "dir" >>,
       << Join(Join(s, n_Movie1), n_m_nfo), "file" >> },
     { << s, "dir" >>,
       << Join(s, n_Movie1), "noperm" >>,
       << Join(Join(s, n_Movie1), n_m_nfo), "file" >>,
       << Join(s, n_Movie2), "dir" >>,
       << Join(Join(s, n_Movie2), n_m_nfo), "file" >> },
     { << s, "noperm" >> },
     { << s, "dir" >>,
       << Join(s, n_d_nfo), "file" >>,
       << Join(s, n_Movie1), "noperm" >>,
       << Join(s, n_Movie2), "dir" >> } >>

\* The library with k studios, studio i of shape base + (i-1)*stride.
UnreadableTree(k, base, stride) ==
  TreeOf({ << LibraryRoot, "dir" >> }
         \cup UNION { UnreadableShapes(Join(LibraryRoot, StudioNames[i]))
                        [((base + (i - 1) * stride) % 4) + 1] : i \in 1..k })

InitUnreadable ==
  /\ fs \in { UnreadableTree(k, base, stride) :
                k \in 1..MaxStudios, base \in 0..3, stride \in 0..3 }
  /\ libraryPaths = << LibraryRoot >>
  /\ numWorkers \in 1..MaxWorkers
  /\ result = EmptyResult
  /\ resultMu = {}
  /\ studioChan = NoChan
  /\ wg = 0
  /\ pc = [g \in Procs |-> IF g = Main THEN "main" ELSE "idle"]
  /\ loc = [g \in Procs |-> NoLocal]
  /\ studioDirs = << >>
  /\ root = 1
  /\ idx = 1
  /\ emitted = EmptyResult
  /\ execute = FALSE
  /\ removed = << >>
  /\ di = 1
  /\ run = 1

SpecUnreadable == InitUnreadable /\ [][Next]_vars

\* The same program under the scheduler's fairness: a goroutine that can take
\* a step is eventually run, so some enabled step is eventually taken.
LiveSpec == Init /\ [][Next]_vars /\ WF_vars(Next)

(***************************************************************************)
(* Definitions used to state the properties.                               *)
(***************************************************************************)
BagOfSeq(q) ==
  [x \in {q[i] : i \in DOMAIN q} |-> Cardinality({i \in DOMAIN q : q[i] = x})]

\* The values appended to category c by a sequence of appends.
ValsOf(appends, c) ==
  LET sel == SelectSeq(appends, LAMBDA e : e.cat = c)
  IN  [i \in DOMAIN sel |-> sel[i].val]

RECURSIVE Flatten(_)
Flatten(qs) == IF qs = << >> THEN << >> ELSE Head(qs) \o Flatten(Tail(qs))

\* The path an entry of category c names.
EntryPath(c, v) == IF c = "StructureWarnings" THEN v.path ELSE v

\* The paths the result names, in any category.
ResultPaths ==
  UNION { {EntryPath(c, result[c][i]) : i \in DOMAIN result[c]} : c \in Categories }

\* The studio folders of the library: its immediate subdirectories.
StudiosOf(f, libraryPath) == {p \in Children(f, libraryPath) : f[p] # "file"}

ScanReturned == pc[Main] = "returned"

WorkersGone == \A w \in Workers : pc[w] \in {"idle", "done"}

\* Main is in the second pass of scanLibrary (main.go:201-207).
InSecondPass ==
  \/ pc[Main] = "second"
  \/ pc[Main] \in {"lock", "load", "store", "unlock"} /\ loc[Main].ret = "second"

\* What one studio contributes when it is processed alone, in order.
StudioAppends(f, studioPath) ==
  checkDirectChildren(f, studioPath, "studio")
  \o (IF ReadDirErr(f, studioPath) # ""
        THEN << Warn("Cannot read studio directory: %s (%v)", "", studioPath,
                     ReadDirErr(f, studioPath)) >>
        ELSE LET titles == dirPaths(f, studioPath)
             IN  Flatten([i \in DOMAIN titles |-> processTitleFolder(f, titles[i])]))

\* What a scan of the tree with a single worker appends, in order.
SequentialScan(f, libraryPath) ==
  LET studios == dirPaths(f, libraryPath)
      empties == SelectSeq(studios, LAMBDA d : isDirEmpty(f, d))
  IN  checkDirectChildren(f, libraryPath, "library")
      \o Flatten([i \in DOMAIN studios |-> StudioAppends(f, studios[i])])
      \o [i \in DOMAIN empties |-> Emit("EmptyFolders", empties[i])]

(***************************************************************************)
(* C1..C5: the concurrent scan.                                            *)
(***************************************************************************)

\* C1: for a fixed tree, a scan with any worker count >= 1 and under any
\* interleaving of the workers ends with the same four result sequences, as
\* bags: those of the scan that processes the studios one after the other.
C1_SameResultAnyInterleaving ==
  (ScanReturned /\ numWorkers >= 1) =>
    \A c \in Categories :
      BagOfSeq(result[c]) = BagOfSeq(ValsOf(SequentialScan(fs, libraryPaths[root]), c))

\* Two workers have each appended for their own studio and the orphaned
\* folders did not arrive in the order of the studios.
C1_Witness ==
  /\ ScanReturned
  /\ numWorkers = 2
  /\ Len(result["OrphanedFolders"]) = 2
  /\ result["OrphanedFolders"] # ValsOf(SequentialScan(fs, libraryPaths[root]), "OrphanedFolders")

\* C2: no append is lost or duplicated: when scanLibrary has returned, each
\* result sequence holds exactly the values whose append was made, each as
\* often as it was appended, whatever the interleaving of the appends.
C2_NoLostOrDuplicatedAppend ==
  ScanReturned => \A c \in Categories : BagOfSeq(result[c]) = emitted[c]

\* A scan has returned after main and two workers appended to the same two
\* sequences.
C2_Witness ==
  /\ ScanReturned
  /\ numWorkers = 2
  /\ Len(result["StructureWarnings"]) = 4
  /\ Len(result["OrphanedFiles"]) = 3

\* C3: while main is in the second pass (or has left it), every worker has
\* exited: no step of processStudio happens at or after the first read of
\* the second pass.
C3_Barrier == (InSecondPass \/ ScanReturned) => WorkersGone

\* Main reads the first studio of the second pass after two workers have
\* processed studios.
C3_Witness ==
  /\ pc[Main] = "second"
  /\ idx = 1
  /\ Len(studioDirs) = 2
  /\ numWorkers = 2
  /\ Len(result["OrphanedFolders"]) + Len(result["OrphanedFiles"]) >= 2

\* C4: scanLibrary terminates for every worker count and every number of
\* studios: every studio is sent without blocking, the channel is closed,
\* every started worker exits and scanLibrary returns.
C4_ScanTerminates ==
  <>(/\ ScanReturned
     /\ studioChan.closed
     /\ idx > Len(studioDirs)
     /\ WorkersGone)

\* A scan with zero workers of a library that has studios has returned, the
\* studios still in the closed channel.
C4_Witness ==
  /\ ScanReturned
  /\ numWorkers = 0
  /\ Len(studioDirs) = 2
  /\ Len(studioChan.buf) = 2
  /\ studioChan.closed

\* C5 as claimed: after a scan with zero workers the result has no entry for
\* a studio folder or for anything beneath one.
C5_Original ==
  (ScanReturned /\ numWorkers = 0) =>
    \A p \in ResultPaths :
      \A d \in StudiosOf(fs, libraryPaths[root]) : ~IsPrefixPath(d, p)

\* C5, amended: after a scan with zero workers the result has no entry for
\* anything beneath a studio folder, and its only entries for studio folders
\* are the Empty Folders entries of the second pass, one for each studio
\* that has no entries.
C5_ZeroWorkersOnlyEmptyStudios ==
  (ScanReturned /\ numWorkers = 0) =>
    /\ \A c \in Categories : \A i \in DOMAIN result[c] :
         \A d \in StudiosOf(fs, libraryPaths[root]) :
           IsPrefixPath(d, EntryPath(c, result[c][i])) =>
             /\ c = "EmptyFolders"
             /\ result[c][i] = d
             /\ fs[d] = "dir"
             /\ Children(fs, d) = {}
    /\ \A d \in StudiosOf(fs, libraryPaths[root]) :
         (fs[d] = "dir" /\ Children(fs, d) = {}) =>
           Cardinality({i \in DOMAIN result["EmptyFolders"] :
                          result["EmptyFolders"][i] = d}) = 1

\* A zero-worker scan has returned from a library with an empty studio, now
\* listed, and a studio with title folders, none of them listed.
C5_Witness ==
  /\ ScanReturned
  /\ numWorkers = 0
  /\ Len(result["EmptyFolders"]) = 1
  /\ \E d \in StudiosOf(fs, libraryPaths[root]) :
       \E t \in Children(fs, d) : fs[t] = "dir" /\ Children(fs, t) # {}

(***************************************************************************)
(* C6..C9: processTitleFolder on its own (SpecTitle).                      *)
(* C10: checkDirectChildren on its own (SpecLevel).                        *)
(***************************************************************************)
CallDone == pc[Main] = "done"

\* The entries processTitleFolder read from the title folder.
TitleRead == fs[TitlePath] = "dir"
TitleKids == Children(fs, TitlePath)

\* Stated on the names themselves: a file with a video extension in any
\* letter case, a directory whose name ends in .trickplay in any letter case.
VideoFileAt(p) == fs[p] = "file" /\ ToLower(Ext(Base(p))) \in videoExtensions
TrickplayDirAt(p) ==
  /\ fs[p] # "file"
  /\ Len(Base(p)) >= 10
  /\ ToLower(SubSeq(Base(p), Len(Base(p)) - 9, Len(Base(p))))
       = << ".", "t", "r", "i", "c", "k", "p", "l", "a", "y" >>

SubdirWarning(p) == Sprintf("Unexpected subdirectory in title folder: %s", "", p, "")

\* C6: processTitleFolder on a readable title folder with zero entries
\* appends exactly one Empty Folders entry, the title path, and nothing to
\* Orphaned Folders or Structure Warnings.
C6_EmptyTitleIsEmptyFolder ==
  (CallDone /\ TitleRead /\ TitleKids = {}) =>
    /\ result["EmptyFolders"] = << TitlePath >>
    /\ result["OrphanedFolders"] = << >>
    /\ result["StructureWarnings"] = << >>

\* processTitleFolder has returned from an empty readable title folder and
\* listed it.
C6_Witness ==
  /\ CallDone /\ TitleRead /\ TitleKids = {}
  /\ Len(result["EmptyFolders"]) = 1

\* C7: processTitleFolder on a title folder it read at least one entry
\* from, every entry a non-video file or a directory whose name ends in
\* .trickplay, appends exactly one Orphaned Folders entry, the title path,
\* and nothing to Empty Folders or Structure Warnings.
C7_OnlyMetadataIsOrphanedFolder ==
  (/\ CallDone /\ TitleRead /\ TitleKids # {}
   /\ \A p \in TitleKids : \/ fs[p] = "file" /\ ~VideoFileAt(p)
                           \/ TrickplayDirAt(p)) =>
    /\ result["OrphanedFolders"] = << TitlePath >>
    /\ result["EmptyFolders"] = << >>
    /\ result["StructureWarnings"] = << >>

\* processTitleFolder has returned from a title folder holding a metadata
\* file and two .trickplay directories, one in upper case, and listed it.
C7_Witness ==
  /\ CallDone /\ TitleRead
  /\ Cardinality(TitleKids) = 3
  /\ \E p \in TitleKids : fs[p] = "file" /\ ~VideoFileAt(p)
  /\ \E p, q \in TitleKids : /\ p # q /\ TrickplayDirAt(p) /\ TrickplayDirAt(q)
                             /\ Base(p) # ToLower(Base(p))
  /\ \A p \in TitleKids : fs[p] = "file" => ~VideoFileAt(p)
  /\ result["OrphanedFolders"] = << TitlePath >>

\* C8: processTitleFolder on a title folder with at least one file whose
\* extension is a video extension in any letter case appends nothing to
\* Orphaned Folders and nothing to Empty Folders, whatever else is there.
C8_VideoTitleIsKept ==
  (CallDone /\ TitleRead /\ \E p \in TitleKids : VideoFileAt(p)) =>
    /\ result["OrphanedFolders"] = << >>
    /\ result["EmptyFolders"] = << >>

\* processTitleFolder has returned from a title folder whose only video has
\* an upper-case extension, next to a metadata file and a subdirectory.
C8_Witness ==
  /\ CallDone /\ TitleRead
  /\ Cardinality({p \in TitleKids : VideoFileAt(p)}) = 1
  /\ \E p \in TitleKids : VideoFileAt(p) /\ Ext(Base(p)) \notin videoExtensions
  /\ \E p \in TitleKids : fs[p] = "file" /\ ~VideoFileAt(p)
  /\ \E p \in TitleKids : fs[p] # "file"
  /\ result["OrphanedFolders"] = << >>

\* C9: processTitleFolder, having read the title folder, appends exactly
\* one Structure Warning for each subdirectory whose name does not end in
\* .trickplay in any letter case, none for one whose name does, and no
\* other Structure Warning.
C9_OneWarningPerUnexpectedSubdir ==
  (CallDone /\ TitleRead) =>
    /\ \A p \in TitleKids :
         Cardinality({i \in DOMAIN result["StructureWarnings"] :
                        result["StructureWarnings"][i].path = p})
           = IF fs[p] # "file" /\ ~TrickplayDirAt(p) THEN 1 ELSE 0
    /\ \A i \in DOMAIN result["StructureWarnings"] :
         \E p \in TitleKids : result["StructureWarnings"][i] = SubdirWarning(p)
    /\ Len(result["StructureWarnings"])
         = Cardinality({p \in TitleKids : fs[p] # "file" /\ ~TrickplayDirAt(p)})

\* processTitleFolder has returned from a title folder with two unexpected
\* subdirectories and MOVIE.TRICKPLAY, with two warnings.
C9_Witness ==
  /\ CallDone /\ TitleRead
  /\ Cardinality({p \in TitleKids : fs[p] # "file" /\ ~TrickplayDirAt(p)}) = 2
  /\ \E p \in TitleKids : TrickplayDirAt(p) /\ Base(p) # ToLower(Base(p))
  /\ Len(result["StructureWarnings"]) = 2

\* The directory checkDirectChildren is called on, and its level label.
LevelPath == LibraryRoot
LevelKids == Children(fs, LevelPath)
LevelRead == fs[LevelPath] = "dir"

\* The filename minus its extension, lowercased.
LowerBasename(p) ==
  ToLower(SubSeq(Base(p), 1, Len(Base(p)) - Len(Ext(Base(p)))))

\* Some video file of the level has a basename that is a prefix of p's.
MatchedAt(p) ==
  \E v \in LevelKids :
    /\ VideoFileAt(v)
    /\ Len(LowerBasename(v)) <= Len(LowerBasename(p))
    /\ SubSeq(LowerBasename(p), 1, Len(LowerBasename(v))) = LowerBasename(v)

MetadataWarning(level, p) ==
  Sprintf("Metadata file at %s level (should be in title folder): %s", level, p, "")

\* C10: checkDirectChildren never appends to Orphaned Files a non-video
\* file whose lowercased basename has the lowercased basename of a video
\* file of the same directory as a prefix, and, having read the directory,
\* appends exactly one Structure Warning for it, at either level.
C10_MatchedMetadataIsWarned ==
  CallDone =>
    \A p \in LevelKids :
      (fs[p] = "file" /\ ~VideoFileAt(p) /\ MatchedAt(p)) =>
        /\ \A i \in DOMAIN result["OrphanedFiles"] : result["OrphanedFiles"][i] # p
        /\ \A c \in {"OrphanedFolders", "EmptyFolders"} : result[c] = << >>
        /\ LevelRead =>
             /\ Cardinality({i \in DOMAIN result["StructureWarnings"] :
                   result["StructureWarnings"][i].path = p}) = 1
             /\ \E i \in DOMAIN result["StructureWarnings"] :
                  \E level \in {"library", "studio"} :
                    result["StructureWarnings"][i] = MetadataWarning(level, p)

\* checkDirectChildren has returned from a directory with movie.mkv,
\* movie-poster.jpg and Movie.NFO: three warnings and no orphaned file.
C10_Witness ==
  /\ CallDone /\ LevelRead
  /\ Cardinality(LevelKids) = 3
  /\ \E p \in LevelKids : VideoFileAt(p)
  /\ \E p \in LevelKids : fs[p] = "file" /\ ~VideoFileAt(p) /\ MatchedAt(p)
                          /\ Ext(Base(p)) # ToLower(Ext(Base(p)))
  /\ \E p \in LevelKids : fs[p] = "file" /\ ~VideoFileAt(p) /\ MatchedAt(p)
                          /\ Len(LowerBasename(p)) > 5
  /\ Len(result["StructureWarnings"]) = 3
  /\ result["OrphanedFiles"] = << >>

(***************************************************************************)
(* C11, C12: checkDirectChildren on its own (SpecLevel).                   *)
(***************************************************************************)
\* The number of entries of category c that name path p.
CountIn(c, p) ==
  Cardinality({i \in DOMAIN result[c] : EntryPath(c, result[c][i]) = p})

VideoWarning(level, p) ==
  Sprintf("Video file at %s level (should be in title folder): %s", level, p, "")

\* C11: checkDirectChildren, having read the directory, appends exactly one
\* Orphaned Files entry and no Structure Warning for every non-video file
\* of the directory whose basename has the basename of no video file of
\* the same directory as a prefix (basenames lowercased, videos of
\* subdirectories not counted).
C11_UnmatchedMetadataIsOrphaned ==
  (CallDone /\ LevelRead) =>
    \A p \in LevelKids :
      (fs[p] = "file" /\ ~VideoFileAt(p) /\ ~MatchedAt(p)) =>
        /\ CountIn("OrphanedFiles", p) = 1
        /\ CountIn("StructureWarnings", p) = 0

\* C12: checkDirectChildren, having read the directory, appends exactly one
\* Structure Warning, the video warning of its level, for every video file
\* of the directory, and never lists it in another sequence.
C12_VideoAtLevelIsWarned ==
  CallDone =>
    \A p \in LevelKids :
      VideoFileAt(p) =>
        /\ \A c \in Categories \ {"StructureWarnings"} : CountIn(c, p) = 0
        /\ LevelRead =>
             /\ CountIn("StructureWarnings", p) = 1
             /\ \E i \in DOMAIN result["StructureWarnings"] :
                  result["StructureWarnings"][i] = VideoWarning(loc[Main].level, p)

\* checkDirectChildren has returned from a directory with two video files,
\* one with an upper-case extension, and a stray metadata file: two
\* warnings and one orphaned file.
C12_Witness ==
  /\ CallDone /\ LevelRead
  /\ Cardinality({p \in LevelKids : VideoFileAt(p)}) = 2
  /\ \E p \in LevelKids : VideoFileAt(p) /\ Ext(Base(p)) \notin videoExtensions
  /\ Len(result["StructureWarnings"]) = 2
  /\ Len(result["OrphanedFiles"]) = 1

(***************************************************************************)
(* C13, C17, C18, C19: a whole run of main (SpecRun).                      *)
(***************************************************************************)
RunDone == pc[Main] = "exit"
InDeletionPass == pc[Main] \in {"removeall", "removefiles", "removeempty"}

\* The paths category c lists.
Listed(c) == {EntryPath(c, result[c][i]) : i \in DOMAIN result[c]}

\* C13: no step of a run removes a video file: every video file that exists
\* before the step exists after it.
C13_VideoFilesNeverDeleted ==
  [][\A p \in DOMAIN fs : VideoFileAt(p) => p \in DOMAIN fs']_vars

\* C17: every os.RemoveAll and os.Remove call of the deletion pass is made
\* on a path listed in Orphaned Folders, Orphaned Files or Empty Folders,
\* never on a path that only a Structure Warning names.
C17_WarningsNeverTriggerRemoval ==
  \A i \in DOMAIN removed :
    /\ removed[i].path \in
         Listed("OrphanedFolders") \cup Listed("OrphanedFiles") \cup Listed("EmptyFolders")
    /\ ~(/\ removed[i].path \in Listed("StructureWarnings")
         /\ removed[i].path \notin
              Listed("OrphanedFolders") \cup Listed("OrphanedFiles") \cup Listed("EmptyFolders"))

\* A run with --execute has ended: it made remove calls, and a video file a
\* warning names, at the library level, is still there.
C17_Witness ==
  /\ RunDone /\ execute
  /\ Len(removed) >= 2
  /\ \E p \in Listed("StructureWarnings") : p \in DOMAIN fs /\ VideoFileAt(p)

\* C18: without --execute no step changes the filesystem or makes a remove
\* call, and main never enters the deletion pass.
C18_DryRunLeavesFilesystem ==
  /\ [](~execute => ~InDeletionPass)
  /\ [][~execute => (fs' = fs /\ removed' = removed)]_vars

\* A run without --execute has ended with entries in three sequences and
\* every listed path still there.
C18_Witness ==
  /\ RunDone /\ ~execute
  /\ \A c \in {"OrphanedFolders", "OrphanedFiles", "EmptyFolders"} :
       Listed(c) # {} /\ Listed(c) \subseteq DOMAIN fs

\* The loop of the deletion pass a remove call belongs to.
RemovalRank(call) ==
  IF call.path \in Listed("OrphanedFolders") THEN 1
  ELSE IF call.path \in Listed("OrphanedFiles") THEN 2
  ELSE 3

PositionIn(c, p) == CHOOSE k \in DOMAIN result[c] : result[c][k] = p

\* C19: the remove calls come in the order Orphaned Folders, Orphaned Files,
\* Empty Folders, and the Empty Folders are removed in the reverse of their
\* order in the result.
C19_DeletionOrder ==
  \A i, j \in DOMAIN removed :
    i < j =>
      /\ RemovalRank(removed[i]) <= RemovalRank(removed[j])
      /\ (RemovalRank(removed[i]) = 3 /\ RemovalRank(removed[j]) = 3) =>
           PositionIn("EmptyFolders", removed[i].path)
             > PositionIn("EmptyFolders", removed[j].path)

\* A run with --execute has ended after removing an orphaned folder, an
\* orphaned file and two empty folders.
C19_Witness ==
  /\ RunDone /\ execute
  /\ \E i \in DOMAIN removed : RemovalRank(removed[i]) = 1
  /\ \E i \in DOMAIN removed : RemovalRank(removed[i]) = 2
  /\ Cardinality({i \in DOMAIN removed : RemovalRank(removed[i]) = 3}) = 2

(***************************************************************************)
(* C14, C15: the scan of one library (Spec).  C16: processTitleFolder on   *)
(* its own (SpecTitle).                                                    *)
(***************************************************************************)

\* C14: in every state of a scan no path is named by entries of two
\* different result sequences.
C14_CategoriesExclusive ==
  \A c1, c2 \in Categories : c1 # c2 => Listed(c1) \cap Listed(c2) = {}

\* A scan has returned with entries in all four sequences, an unreadable
\* studio among the warnings.
C14_Witness ==
  /\ ScanReturned
  /\ \A c \in Categories : result[c] # << >>
  /\ \E d \in StudiosOf(fs, libraryPaths[root]) :
       fs[d] = "noperm" /\ d \in Listed("StructureWarnings")

\* The title folders of the library that were read: the readable
\* subdirectories of its readable studios.
TitlesRead(f, libraryPath) ==
  UNION { {t \in Children(f, d) : f[t] = "dir"} :
            d \in {e \in StudiosOf(f, libraryPath) : f[e] = "dir"} }

HasVideoInside(t) == \E p \in Children(fs, t) : VideoFileAt(p)

\* C15: after a scan with at least one worker every title folder that was
\* read is in Empty Folders once and not in Orphaned Folders (no entries),
\* or in Orphaned Folders once and not in Empty Folders (entries, no video
\* file), or in neither (a video file).
C15_OneOutcomePerTitle ==
  (ScanReturned /\ numWorkers >= 1) =>
    \A t \in TitlesRead(fs, libraryPaths[root]) :
      /\ CountIn("EmptyFolders", t) = (IF Children(fs, t) = {} THEN 1 ELSE 0)
      /\ CountIn("OrphanedFolders", t)
           = (IF Children(fs, t) # {} /\ ~HasVideoInside(t) THEN 1 ELSE 0)

\* A two-worker scan has returned from a library with an empty, an orphaned
\* and a valid title folder.
C15_Witness ==
  /\ ScanReturned /\ numWorkers = 2
  /\ \E t1, t2, t3 \in TitlesRead(fs, libraryPaths[root]) :
       /\ Children(fs, t1) = {}
       /\ Children(fs, t2) # {} /\ ~HasVideoInside(t2)
       /\ HasVideoInside(t3)
       /\ t1 \in Listed("EmptyFolders") /\ t2 \in Listed("OrphanedFolders")

StrictlyBelow(d, p) == IsPrefixPath(d, p) /\ p # d

\* C16 as claimed: when the title folder is in Orphaned Folders, no path
\* strictly below it is named in any of the four sequences.
C16_Original ==
  (CallDone /\ TitlePath \in Listed("OrphanedFolders")) =>
    \A c \in Categories : \A p \in Listed(c) : ~StrictlyBelow(TitlePath, p)

\* C16, amended: when the title folder is in Orphaned Folders, no path
\* strictly below it is in Orphaned Folders, Orphaned Files or Empty
\* Folders, and the entries for paths below it are exactly the Structure
\* Warnings for its unexpected subdirectories, one for each such directory
\* directly inside it.
C16_OnlySubdirWarningsBelowOrphan ==
  (CallDone /\ TitlePath \in Listed("OrphanedFolders")) =>
    /\ \A c \in Categories \ {"StructureWarnings"} :
         \A p \in Listed(c) : ~StrictlyBelow(TitlePath, p)
    /\ \A i \in DOMAIN result["StructureWarnings"] :
         \E p \in TitleKids :
           /\ fs[p] # "file" /\ ~TrickplayDirAt(p)
           /\ result["StructureWarnings"][i] = SubdirWarning(p)
    /\ \A p \in TitleKids :
         CountIn("StructureWarnings", p)
           = (IF fs[p] # "file" /\ ~TrickplayDirAt(p) THEN 1 ELSE 0)

\* processTitleFolder has returned from a title folder with a metadata
\* file, a .trickplay directory and the subdirectory extras, which holds a
\* video: the folder is orphaned and extras is warned about.
C16_Witness ==
  /\ CallDone /\ TitlePath \in Listed("OrphanedFolders")
  /\ Cardinality(TitleKids) = 3
  /\ \E p \in TitleKids : TrickplayDirAt(p)
  /\ \E p \in TitleKids : fs[p] = "file"
  /\ \E p \in TitleKids : /\ fs[p] # "file" /\ Children(fs, p) # {}
                          /\ p \in Listed("StructureWarnings")

(***************************************************************************)
(* C20: a batch of library paths (SpecBatch).                              *)
(***************************************************************************)
\* The library path does not exist or is not a directory.
BadRoot(p) == p \notin DOMAIN fs \/ fs[p] = "file"

\* What a scan without workers appends: the library's own files and its
\* studios without entries.
ZeroWorkerScan(f, libraryPath) ==
  LET studios == dirPaths(f, libraryPath)
      empties == SelectSeq(studios, LAMBDA d : isDirEmpty(f, d))
  IN  checkDirectChildren(f, libraryPath, "library")
      \o [i \in DOMAIN empties |-> Emit("EmptyFolders", empties[i])]

\* What the batch appends when its bad paths are left out.
BatchWithoutBadRoots ==
  LET good == SelectSeq(libraryPaths, LAMBDA p : ~BadRoot(p))
  IN  Flatten([i \in DOMAIN good |->
                 IF numWorkers >= 1 THEN SequentialScan(fs, good[i])
                                    ELSE ZeroWorkerScan(fs, good[i])])

\* C20: while main is at a library path that does not exist or is no
\* directory, no step changes the result, starts a worker or makes a
\* channel; and when every path of the batch has been scanned the result
\* holds, as bags, what the batch without the bad paths appends.
C20_BadRootIsSkipped ==
  /\ [](pc[Main] = "report" =>
          \A c \in Categories :
            BagOfSeq(result[c]) = BagOfSeq(ValsOf(BatchWithoutBadRoots, c)))
  /\ [][(/\ root \in DOMAIN libraryPaths
         /\ BadRoot(libraryPaths[root])
         /\ root' = root) =>
          (/\ result' = result
           /\ studioChan' = studioChan
           /\ wg' = wg
           /\ \A w \in Workers : pc'[w] = pc[w] /\ pc[w] \in {"idle", "done"})]_vars

\* A batch of a library, a bad path and a second library has been scanned
\* by two workers: the result has the entries of both libraries.
C20_Witness ==
  /\ pc[Main] = "report"
  /\ Len(libraryPaths) = 3
  /\ libraryPaths[1] = LibraryRoot /\ BadRoot(libraryPaths[2]) /\ libraryPaths[3] = SecondRoot
  /\ numWorkers = 2
  /\ \E p \in Listed("OrphanedFolders") : IsPrefixPath(LibraryRoot, p)
  /\ \E p \in Listed("StructureWarnings") : IsPrefixPath(SecondRoot, p)

(***************************************************************************)
(* C21: directories that cannot be read (SpecUnreadable).                  *)
(***************************************************************************)
StudioReadWarning(d) ==
  Sprintf("Cannot read studio directory: %s (%v)", "", d, "permission denied")

TitleReadWarning(t) ==
  Sprintf("Cannot read title directory: %s (%v)", "", t, "permission denied")

\* The studios of the library read by processStudio, and the
\* subdirectories of those.
ReadableStudios == {d \in StudiosOf(fs, libraryPaths[root]) : fs[d] = "dir"}
TitleDirs == UNION { {t \in Children(fs, d) : fs[t] # "file"} : d \in ReadableStudios }

\* Path d is named by one entry, the warning w, and nothing beneath d is
\* named at all.
OnlyWarned(d, w) ==
  /\ CountIn("StructureWarnings", d) = 1
  /\ \E i \in DOMAIN result["StructureWarnings"] : result["StructureWarnings"][i] = w
  /\ \A c \in Categories \ {"StructureWarnings"} : CountIn(c, d) = 0
  /\ \A c \in Categories : \A p \in Listed(c) : ~StrictlyBelow(d, p)

\* C21: after a scan with at least one worker, a studio or title directory
\* whose read failed has exactly one entry, the Structure Warning that names
\* it and the error, and nothing beneath it is listed (the unreadable studio
\* is not an Empty Folder); every readable sibling is classified: a title
\* folder as empty or orphaned by its entries, a studio without entries as
\* empty, a file directly in a studio once.
C21_ReadFailureIsOneWarning ==
  (ScanReturned /\ numWorkers >= 1) =>
    /\ \A d \in StudiosOf(fs, libraryPaths[root]) :
         fs[d] = "noperm" => OnlyWarned(d, StudioReadWarning(d))
    /\ \A t \in TitleDirs :
         fs[t] = "noperm" => OnlyWarned(t, TitleReadWarning(t))
    /\ \A t \in TitleDirs :
         fs[t] = "dir" =>
           /\ CountIn("EmptyFolders", t) = (IF Children(fs, t) = {} THEN 1 ELSE 0)
           /\ CountIn("OrphanedFolders", t)
                = (IF Children(fs, t) # {} /\ ~HasVideoInside(t) THEN 1 ELSE 0)
    /\ \A d \in ReadableStudios :
         /\ CountIn("EmptyFolders", d) = (IF Children(fs, d) = {} THEN 1 ELSE 0)
         /\ \A p \in Children(fs, d) :
              fs[p] = "file" => CountIn("OrphanedFiles", p) + CountIn("StructureWarnings", p) = 1

\* A two-worker scan has returned from a library with an unreadable studio
\* that holds a title folder and a studio with an unreadable title folder
\* beside an orphaned one: two read warnings and the orphaned sibling.
C21_Witness ==
  /\ ScanReturned /\ numWorkers = 2
  /\ \E d \in StudiosOf(fs, libraryPaths[root]) :
       /\ fs[d] = "noperm" /\ Children(fs, d) # {}
       /\ StudioReadWarning(d) \in {result["StructureWarnings"][i] : i \in DOMAIN result["StructureWarnings"]}
  /\ \E t \in TitleDirs :
       /\ fs[t] = "noperm" /\ Children(fs, t) # {}
       /\ TitleReadWarning(t) \in {result["StructureWarnings"][i] : i \in DOMAIN result["StructureWarnings"]}
  /\ Listed("OrphanedFolders") # {}

(***************************************************************************)
(* C22: checkDirectChildren on a directory it cannot read (SpecLevel).     *)
(***************************************************************************)
\* C22: when checkDirectChildren cannot read its directory, the four result
\* sequences stay as they were at the call, the mutex is never taken, and
\* the call returns at once.
C22_UnreadableLevelIsSilent ==
  ~LevelRead =>
    /\ result = EmptyResult
    /\ resultMu = {}
    /\ pc[Main] \in {"cdc", "done"}

\* checkDirectChildren has returned from an unreadable directory that holds
\* a video file and a metadata file no video matches.
C22_Witness ==
  /\ CallDone /\ ~LevelRead
  /\ \E p \in LevelKids : VideoFileAt(p)
  /\ \E p \in LevelKids : fs[p] = "file" /\ ~VideoFileAt(p) /\ ~MatchedAt(p)
  /\ result = EmptyResult

(***************************************************************************)
(* C23: the second pass over the studios (Spec).                           *)
(***************************************************************************)
\* C23: after a scan, with any worker count, a studio folder is in Empty
\* Folders, once, exactly when the second pass read it and found no entry,
\* file or subdirectory; a studio that has title folders is not listed,
\* whatever became of them.
C23_EmptyStudioIffNoEntries ==
  ScanReturned =>
    \A d \in StudiosOf(fs, libraryPaths[root]) :
      CountIn("EmptyFolders", d)
        = (IF fs[d] = "dir" /\ Children(fs, d) = {} THEN 1 ELSE 0)

\* A two-worker scan has returned from a library with a studio without
\* entries, now listed, and a studio whose title folders are all listed as
\* empty or orphaned, itself not listed.
C23_Witness ==
  /\ ScanReturned /\ numWorkers = 2
  /\ \E d \in StudiosOf(fs, libraryPaths[root]) :
       fs[d] = "dir" /\ Children(fs, d) = {} /\ d \in Listed("EmptyFolders")
  /\ \E d \in StudiosOf(fs, libraryPaths[root]) :
       /\ Children(fs, d) # {}
       /\ \A t \in Children(fs, d) :
            t \in Listed("EmptyFolders") \cup Listed("OrphanedFolders")
       /\ d \notin Listed("EmptyFolders")

(***************************************************************************)
(* C24: the first read of the result (SpecBatchRun).                       *)
(***************************************************************************)
\* Main is at the report or past it: the statements that read the result
\* (main.go:59-137).
ReadingResult == pc[Main] \in {"report", "removeall", "removefiles", "removeempty", "exit"}

\* A goroutine is in an append or has appends left to make.
Appending(g) == pc[g] \in {"lock", "load", "store", "unlock"} \/ loc[g].pending # << >>

\* C24: when main reads the result every library path of the batch has
\* been scanned, no worker is running, nobody holds the mutex or has an
\* append to make, and no later step changes the result; and whenever
\* scanLibrary has returned no worker it started is running.
C24_ReadOnlyAfterAllScans ==
  /\ [](ReadingResult =>
          /\ root > Len(libraryPaths)
          /\ WorkersGone
          /\ resultMu = {}
          /\ \A g \in Procs : ~Appending(g))
  /\ [](ScanReturned => WorkersGone)
  /\ [][ReadingResult => (result' = result /\ ReadingResult')]_vars

\* Main is in the deletion pass after two workers scanned both libraries of
\* a batch of two.
C24_Witness ==
  /\ pc[Main] = "removefiles"
  /\ libraryPaths = << LibraryRoot, SecondRoot >>
  /\ numWorkers = 2
  /\ \E p \in Listed("OrphanedFolders") : IsPrefixPath(LibraryRoot, p)
  /\ \E p \in Listed("StructureWarnings") : IsPrefixPath(SecondRoot, p)
  /\ removed # << >>

(***************************************************************************)
(* C25: the mutex of the result (Spec).                                    *)
(***************************************************************************)
\* The statements of a goroutine that call os.Stat or os.ReadDir.
FilesystemCallAt(g) == pc[g] \in {"stat", "cdc", "readdir", "readstudio", "title", "second"}

\* C25: at most one goroutine holds resultMu; the holders are exactly the
\* goroutines inside an append; every change of a result sequence is the
\* append of the holder of the mutex; and a holder steps only through the
\* append to the Unlock, never through a filesystem call.
C25_LockHeldOnlyForAppend ==
  /\ [](/\ Cardinality(resultMu) <= 1
        /\ \A g \in Procs : g \in resultMu <=> pc[g] \in {"load", "store", "unlock"}
        /\ \A g \in resultMu : ~FilesystemCallAt(g))
  /\ [][result' # result =>
          \E g \in resultMu :
            /\ pc[g] = "store" /\ pc'[g] = "unlock"
            /\ g \in resultMu'
            /\ \E c \in Categories :
                 /\ result'[c] = Append(result[c], Head(loc[g].pending).val)
                 /\ \A c2 \in Categories \ {c} : result'[c2] = result[c2]]_vars
  /\ [][\A g \in resultMu :
          \/ pc'[g] = pc[g] /\ g \in resultMu'
          \/ pc[g] = "load" /\ pc'[g] = "store" /\ g \in resultMu'
          \/ pc[g] = "store" /\ pc'[g] = "unlock" /\ g \in resultMu'
          \/ pc[g] = "unlock" /\ g \notin resultMu']_vars

\* One worker holds the mutex in its append while the other waits at Lock
\* with an append of its own.
C25_Witness ==
  /\ \E w1, w2 \in Workers :
       /\ w1 # w2
       /\ resultMu = {w1} /\ pc[w1] = "store"
       /\ pc[w2] = "lock"
  /\ \E c \in Categories : result[c] # << >>

(***************************************************************************)
(* C26: the result is append-only across the roots of a batch (SpecBatch). *)
(***************************************************************************)
IsPrefixSeq(q, r) == Len(q) <= Len(r) /\ SubSeq(r, 1, Len(q)) = q

\* What the scan of one library path appends, in the order of one worker.
RootScan(p) ==
  IF BadRoot(p) THEN << >>
  ELSE IF numWorkers >= 1 THEN SequentialScan(fs, p)
  ELSE ZeroWorkerScan(fs, p)

\* C26: every step keeps each result sequence as a prefix of what it
\* becomes, and whenever the scan of a library path has returned the result
\* holds, as bags, the entries of the scans of all paths up to it: a later
\* path adds its entries to those of the earlier ones.
C26_AppendOnlyAcrossRoots ==
  /\ [][\A c \in Categories : IsPrefixSeq(result[c], result'[c])]_vars
  /\ [](ScanReturned =>
          \A c \in Categories :
            BagOfSeq(result[c])
              = BagOfSeq(ValsOf(Flatten([k \in 1..root |-> RootScan(libraryPaths[k])]), c)))

\* The scan of the second library of a batch has returned: the orphaned
\* folder of the first library is still first in its sequence, and the same
\* library scanned a second time has added its entries again.
C26_Witness ==
  /\ ScanReturned /\ root = 3
  /\ libraryPaths = << LibraryRoot, SecondRoot, LibraryRoot >>
  /\ numWorkers >= 1
  /\ Len(result["OrphanedFolders"]) = 2
  /\ result["OrphanedFolders"][1] = result["OrphanedFolders"][2]
  /\ \E p \in Listed("StructureWarnings") : IsPrefixPath(SecondRoot, p)

(***************************************************************************)
(* C27: the basename match of checkDirectChildren (SpecLevel).             *)
(***************************************************************************)
\* C27: checkDirectChildren, having read the directory, warns about a
\* non-video file as matched metadata exactly when the lowercased basename
\* of some video file of the directory is a prefix of the file's lowercased
\* basename (the filename minus its extension, in whatever letter case the
\* extension is), and lists it in Orphaned Files exactly when none is.
C27_MatchIffPrefixOfBasename ==
  (CallDone /\ LevelRead) =>
    \A p \in LevelKids :
      (fs[p] = "file" /\ ~VideoFileAt(p)) =>
        /\ (\E i \in DOMAIN result["StructureWarnings"] :
              result["StructureWarnings"][i] = MetadataWarning(loc[Main].level, p))
             <=> MatchedAt(p)
        /\ p \in Listed("OrphanedFiles") <=> ~MatchedAt(p)

(***************************************************************************)
(* C28: the queue of studios (Spec).                                       *)
(***************************************************************************)
Occurrences(q, s) == Cardinality({i \in DOMAIN q : q[i] = s})

\* Where a studio is between the spawn and wg.Wait: not yet sent, in the
\* queue, or with a worker that runs processStudio on it.
Unsent(s) ==
  IF pc[Main] = "spawn" THEN Occurrences(studioDirs, s)
  ELSE IF pc[Main] = "send" THEN Occurrences(SubSeq(studioDirs, idx, Len(studioDirs)), s)
  ELSE 0
Queued(s) == Occurrences(studioChan.buf, s)
Processing(w) == pc[w] \notin {"idle", "recv", "done"}
WorkersOn(s) == {w \in Workers : Processing(w) /\ loc[w].dirPath = s}

\* C28: with at least one worker, a studio is never in two places at once
\* (unsent, queued, with a worker); it leaves the queue only into the hands
\* of one worker that was waiting at the receive; it leaves that worker
\* only when processStudio has returned, and then it is never queued or
\* taken again; a worker keeps its studio until then; and when the workers
\* have been waited for no studio is left unsent or queued.
C28_EachStudioTakenOnce ==
  /\ [](numWorkers >= 1 =>
          \A s \in StudiosOf(fs, libraryPaths[1]) :
            Unsent(s) + Queued(s) + Cardinality(WorkersOn(s)) <= 1)
  /\ [][(numWorkers >= 1 /\ pc[Main] \in {"spawn", "send", "wait"}) =>
          \A s \in StudiosOf(fs, libraryPaths[1]) :
            /\ Unsent(s)' <= Unsent(s)
            /\ Unsent(s)' < Unsent(s) => Queued(s)' = Queued(s) + 1
            /\ Queued(s)' < Queued(s) =>
                 \E w \in Workers :
                   /\ pc[w] = "recv" /\ pc'[w] = "cdc"
                   /\ WorkersOn(s)' = WorkersOn(s) \cup {w}
                   /\ WorkersOn(s) = {}
            /\ Queued(s)' > Queued(s) => Unsent(s)' = Unsent(s) - 1
            /\ \A w \in Workers :
                 (w \in WorkersOn(s) /\ w \notin WorkersOn(s)') =>
                   /\ pc'[w] = "recv"
                   /\ loc'[w].pending = << >> /\ loc'[w].titles = << >>
                   /\ Unsent(s)' + Queued(s)' = 0
            /\ \A w \in Workers :
                 (w \notin WorkersOn(s) /\ w \in WorkersOn(s)') => Queued(s)' = Queued(s) - 1]_vars
  /\ [](((InSecondPass \/ ScanReturned) /\ numWorkers >= 1) =>
          \A s \in StudiosOf(fs, libraryPaths[1]) :
            Unsent(s) + Queued(s) + Cardinality(WorkersOn(s)) = 0)

\* Two workers each run processStudio on a studio of their own, both past
\* their first append, with nothing left to send.
C28_Witness ==
  /\ numWorkers = 2
  /\ pc[Main] = "wait"
  /\ studioChan.buf = << >>
  /\ \E s1, s2 \in StudiosOf(fs, libraryPaths[1]) :
       /\ s1 # s2
       /\ WorkersOn(s1) = {1} /\ WorkersOn(s2) = {2}
  /\ Len(result["OrphanedFolders"]) + Len(result["EmptyFolders"]) >= 2

(***************************************************************************)
(* C29, C30: subdirectories of a title folder (SpecTitle); C30 also        *)
(* checkDirectChildren (SpecLevel).                                        *)
(***************************************************************************)
UnexpectedSubdirAt(p) == fs[p] # "file" /\ ~TrickplayDirAt(p)

\* C29: processTitleFolder on a title folder it read, with entries and no
\* video file directly inside, appends the title path to Orphaned Folders,
\* once, whether or not it has unexpected subdirectories, and one Structure
\* Warning for each unexpected subdirectory, and nothing else.
C29_WarningsDoNotPreventOrphan ==
  (/\ CallDone /\ TitleRead /\ TitleKids # {}
   /\ \A p \in TitleKids : ~VideoFileAt(p)) =>
    /\ result["OrphanedFolders"] = << TitlePath >>
    /\ result["EmptyFolders"] = << >>
    /\ result["OrphanedFiles"] = << >>
    /\ \A p \in TitleKids :
         /\ CountIn("StructureWarnings", p) = (IF UnexpectedSubdirAt(p) THEN 1 ELSE 0)
         /\ UnexpectedSubdirAt(p) =>
              \E i \in DOMAIN result["StructureWarnings"] :
                result["StructureWarnings"][i] = SubdirWarning(p)
    /\ Len(result["StructureWarnings"])
         = Cardinality({p \in TitleKids : UnexpectedSubdirAt(p)})

\* processTitleFolder has returned from a title folder holding a metadata
\* file and two unexpected subdirectories: two warnings and the folder is
\* orphaned.
C29_Witness ==
  /\ CallDone /\ TitleRead
  /\ Cardinality(TitleKids) = 3
  /\ \A p \in TitleKids : ~VideoFileAt(p)
  /\ \E p \in TitleKids : fs[p] = "file"
  /\ Cardinality({p \in TitleKids : UnexpectedSubdirAt(p)}) = 2
  /\ Len(result["StructureWarnings"]) = 2
  /\ result["OrphanedFolders"] = << TitlePath >>

\* C30 is checked on processStudio (SpecStudio): the studio level and the
\* title folder M1 of the studio.
StudioKids == Children(fs, StudioPath)
StudioTitle == Join(StudioPath, n_Movie1)

\* A directory whose name ends in a video extension.
DirNamedLikeVideo(p) == fs[p] # "file" /\ ToLower(Ext(Base(p))) \in videoExtensions

\* The lowercased basename of v is a prefix of that of p.
BasenamePrefixes(v, p) ==
  /\ Len(LowerBasename(v)) <= Len(LowerBasename(p))
  /\ SubSeq(LowerBasename(p), 1, Len(LowerBasename(v))) = LowerBasename(v)

\* C30: a directory whose name ends in a video extension is never taken for
\* a video file.  Inside a title folder it does not keep the folder from
\* Orphaned Folders when the folder has no video file, and it gets the one
\* warning of an unexpected subdirectory; at the studio level no Structure
\* Warning names it, and a non-video file whose basename only that
\* directory's basename prefixes, no video file's, is an Orphaned File and
\* is not warned about.
C30_DirectoryIsNeverAVideo ==
  CallDone =>
    /\ StudioTitle \in DOMAIN fs =>
         /\ \A p \in Children(fs, StudioTitle) :
              DirNamedLikeVideo(p) =>
                /\ CountIn("StructureWarnings", p) = 1
                /\ \E i \in DOMAIN result["StructureWarnings"] :
                     result["StructureWarnings"][i] = SubdirWarning(p)
         /\ (/\ \E p \in Children(fs, StudioTitle) : DirNamedLikeVideo(p)
             /\ \A p \in Children(fs, StudioTitle) : ~VideoFileAt(p)) =>
              /\ CountIn("OrphanedFolders", StudioTitle) = 1
              /\ CountIn("EmptyFolders", StudioTitle) = 0
    /\ \A p \in StudioKids :
         DirNamedLikeVideo(p) =>
           /\ CountIn("StructureWarnings", p) = 0
           /\ CountIn("OrphanedFiles", p) = 0
           /\ \A q \in StudioKids :
                (/\ fs[q] = "file" /\ ~VideoFileAt(q)
                 /\ BasenamePrefixes(p, q)
                 /\ \A v \in StudioKids : VideoFileAt(v) => ~BasenamePrefixes(v, q)) =>
                  /\ CountIn("OrphanedFiles", q) = 1
                  /\ CountIn("StructureWarnings", q) = 0

\* processStudio has returned from a studio that holds the directory
\* clip.mkv, the file clip.nfo and the title folder M1, itself holding a
\* directory clip.mkv and a metadata file: clip.nfo is an orphaned file, M1
\* an orphaned folder, and the only warning names M1/clip.mkv.
C30_Witness ==
  /\ CallDone
  /\ Cardinality(StudioKids) = 3
  /\ \E p, q \in StudioKids :
       /\ DirNamedLikeVideo(p)
       /\ fs[q] = "file" /\ BasenamePrefixes(p, q)
       /\ q \in Listed("OrphanedFiles")
  /\ StudioTitle \in DOMAIN fs
  /\ Cardinality(Children(fs, StudioTitle)) = 2
  /\ \E p \in Children(fs, StudioTitle) : DirNamedLikeVideo(p)
  /\ \E p \in Children(fs, StudioTitle) : fs[p] = "file"
  /\ StudioTitle \in Listed("OrphanedFolders")
  /\ Len(result["StructureWarnings"]) = 1

(***************************************************************************)
(* C31: a run with --execute and the run after it (SpecRerun).             *)
(***************************************************************************)
\* Path p is directly inside directory d.
ChildOf(d, p) == Len(p) = Len(d) + 1 /\ SubSeq(p, 1, Len(d)) = d

\* The studio folders the scan of this invocation collected.
ScannedStudios == {studioDirs[i] : i \in DOMAIN studioDirs}

\* The remove calls made on entries of directory d.
RemovedIn(d) == {i \in DOMAIN removed : ChildOf(d, removed[i].path)}

\* C31: when a run with --execute has ended, a studio folder that lost
\* entries to the run, each one listed as an orphaned or empty folder, and
\* has none left still exists, as a directory without entries, and is not
\* in the Empty Folders of the run; the scan of the next run lists it in
\* Empty Folders, once.
C31_SingleRunIsNoFixedPoint ==
  /\ (run = 1 /\ RunDone /\ execute) =>
       \A d \in ScannedStudios :
         (/\ RemovedIn(d) # {}
          /\ \A i \in RemovedIn(d) :
               removed[i].path \in Listed("OrphanedFolders") \cup Listed("EmptyFolders")
          /\ Children(fs, d) = {}) =>
           /\ d \in DOMAIN fs
           /\ fs[d] = "dir"
           /\ d \notin Listed("EmptyFolders")
  /\ (run = 2 /\ pc[Main] = "report" /\ execute) =>
       \A d \in ScannedStudios :
         (RemovedIn(d) # {} /\ Children(fs, d) = {}) =>
           CountIn("EmptyFolders", d) = 1

\* The second run has scanned a library whose studio lost an orphaned and an
\* empty title folder to the first run: the studio is now listed.
C31_Witness ==
  /\ run = 2 /\ pc[Main] = "report" /\ execute
  /\ numWorkers = 2
  /\ \E d \in ScannedStudios :
       /\ Cardinality(RemovedIn(d)) = 2
       /\ \E i \in RemovedIn(d) : removed[i].op = "RemoveAll"
       /\ \E i \in RemovedIn(d) : removed[i].op = "Remove"
       /\ Children(fs, d) = {}
       /\ d \in Listed("EmptyFolders")

====
